---- MODULE Spec2Model ----
(***************************************************************************)
(* Verification model of the iway proxy server (TUIC v5 and Trojan).       *)
(*                                                                         *)
(* The specifications share the variables below.  The first three:         *)
(*   SpecAuth  sequential calls of TuicAuthenticationManager::authenticate *)
(*             with the process-wide failed-attempts map and a clock;      *)
(*   SpecGate  one OneShotNotifier with concurrent notify and wait tasks;  *)
(*   Spec      one accepted TUIC connection: the three role tasks, the     *)
(*             command dispatcher and the command handlers behind the      *)
(*             authentication gate.                                        *)
(* The others (SpecReasm, SpecCap, SpecCodec, SpecStreams, SpecRelay,      *)
(* SpecTrojan, SpecAddr, SpecSession, SpecSweep, SpecAuthRace, SpecAccept, *)
(* SpecUdpAssoc) are introduced where they are defined.                    *)
(* Time is in seconds.                                                     *)
(***************************************************************************)
EXTENDS Integers, Sequences, FiniteSets, TLC

(***************************************************************************)
(* Bounds of the model.                                                    *)
(***************************************************************************)
\* SpecAuth: the clock stops at MaxAuthNow, at most MaxAuthCalls calls of authenticate.
MaxAuthNow == 7204
MaxAuthCalls == 7
\* SpecGate: the clock stops at MaxGateNow
MaxGateNow == 4
\* Spec: commands a client sends on the connection, and the last clock value
MaxCmds == 2
MaxNow == 4
\* SpecReasm: the last clock value
MaxReasmNow == 2
MaxCapNow == 2
MaxBlocked == 2

(***************************************************************************)
(* Program constants.                                                      *)
(***************************************************************************)
\* TuicAuthenticationManager::MAX_FAILED_ATTEMPTS
MAX_FAILED_ATTEMPTS == 5
\* the 1 hour window, Duration::from_secs(3600)
WINDOW_SECS == 3600
\* OneShotNotifier::wait, Duration::from_secs(3)
WAIT_SECS == 3
\* UdpSessionManager::new(session_timeout, cleanup_interval): the configured
\* values of the model, in seconds
SESSION_TIMEOUT == 1
CLEANUP_INTERVAL == 1
\* max_reassembly_bytes_per_session, when it is configured
MAX_REASSEMBLY_BYTES == 2

(***************************************************************************)
(* The users table, the exporter and the tokens.                           *)
(***************************************************************************)
\* configured user ids (TuicAuthenticationManager.users keys)
Users == {"u1"}
\* user ids a client may send: the configured ones and one that is not
Uuids == Users \cup {"ux"}
\* users: uuid -> password
users == [u \in Users |-> "pw1"]
\* 32 byte token values a client may send: the one the exporter derives for
\* u1 on this TLS session and another one
Tokens == {"k1", "k2"}
\* TLS keying material exporter: label = uuid bytes, context = password
export_keying_material(label, context) ==
    IF label = "u1" /\ context = "pw1" THEN "k1" ELSE "k0"

\* Authenticate::verify_token: constant time equality of the two 32 byte arrays
verify_token(token, expected) == token = expected

(***************************************************************************)
(* FailedAttempts                                                          *)
(***************************************************************************)
\* (mutant) a new record that does not count the failure that created it
FailedAttempts_new_zero(t) == [count |-> 0, first_failure |-> t]

\* FailedAttempts::new at time t
FailedAttempts_new(t) == [count |-> 1, first_failure |-> t]

\* first_failure.elapsed() at time t
elapsed(rec, t) == t - rec.first_failure

\* (mutant) increment without the reset of a record older than the window
increment_no_reset(rec, t) == [rec EXCEPT !.count = @ + 1]

\* FailedAttempts::increment at time t: the record after the call (count is a
\* u32; it stays far below 2^32 because the rate limit stops it near the maximum)
increment(rec, t) ==
    LET r == IF elapsed(rec, t) > WINDOW_SECS
             THEN [count |-> 0, first_failure |-> t]
             ELSE rec
    IN [r EXCEPT !.count = @ + 1]

\* DashMap::remove
map_remove(m, k) == [x \in (DOMAIN m) \ {k} |-> m[x]]
\* DashMap::insert
map_insert(m, k, v) == [x \in (DOMAIN m) \cup {k} |-> IF x = k THEN v ELSE m[x]]

\* The rate limit block of authenticate: TRUE when the call returns
\* "Too many failed attempts".
rate_limited(fa, uuid, t) ==
    /\ uuid \in DOMAIN fa
    /\ fa[uuid].count >= MAX_FAILED_ATTEMPTS
    /\ elapsed(fa[uuid], t) <= WINDOW_SECS

\* The rate limit block of authenticate when it does not return: the counter of
\* a record that reached the maximum outside the window is reset in place.
rate_limit_reset(fa, uuid, t) ==
    IF uuid \in DOMAIN fa /\ fa[uuid].count >= MAX_FAILED_ATTEMPTS
       /\ ~(elapsed(fa[uuid], t) <= WINDOW_SECS)
    THEN [fa EXCEPT ![uuid] = [count |-> 0, first_failure |-> t]]
    ELSE fa

\* The mismatch branch of authenticate: increment or initialise the record.
record_failure(fa, uuid, t) ==
    IF uuid \in DOMAIN fa
    THEN [fa EXCEPT ![uuid] = increment(@, t)]
    ELSE map_insert(fa, uuid, FailedAttempts_new(t))

\* TuicAuthenticationManager::authenticate(authenticate, connection) at time t.
\* export_ok is the outcome of connection.export_keying_material.
\* Result: the returned value, the failed-attempts map after the call and
\* whether the exporter was called.
authenticate(fa, uuid, token, export_ok, t) ==
    IF uuid \notin DOMAIN users
    THEN [result |-> "User not found", failed_attempts |-> fa, exported |-> FALSE]
    ELSE IF ~export_ok
    THEN [result |-> "Failed to derive token", failed_attempts |-> fa, exported |-> TRUE]
    ELSE IF rate_limited(fa, uuid, t)
    THEN [result |-> "Too many failed attempts", failed_attempts |-> fa, exported |-> TRUE]
    ELSE LET buf == export_keying_material(uuid, users[uuid])
             fa1 == rate_limit_reset(fa, uuid, t)
         IN IF verify_token(token, buf)
            THEN [result |-> "Ok", failed_attempts |-> map_remove(fa1, uuid),
                  exported |-> TRUE]
            ELSE [result |-> "Unauthenticated access",
                  failed_attempts |-> record_failure(fa1, uuid, t),
                  exported |-> TRUE]

(***************************************************************************)
(* OneShotNotifier: a watch channel holding Option<bool>.                  *)
(* None is << >>, Some(v) is <<v>>.                                        *)
(***************************************************************************)
None == << >>
Some(v) == <<v>>
is_some(g) == g # None

\* (mutant) wait_timeout that gives up as soon as the deadline has passed,
\* without looking at the value first
wait_poll_deadline_first(g, start, t) ==
    IF t - start >= WAIT_SECS THEN [ready |-> TRUE, result |-> None]
    ELSE IF is_some(g) THEN [ready |-> TRUE, result |-> g]
    ELSE [ready |-> FALSE, result |-> None]

\* OneShotNotifier::wait_timeout, one poll of timeout(dur, fut) at time t for a
\* wait started at `start`: the inner future is polled first (it is ready as
\* soon as the channel holds a value), then the deadline.
wait_poll(g, start, t) ==
    IF is_some(g) THEN [ready |-> TRUE, result |-> g]
    ELSE IF t - start >= WAIT_SECS THEN [ready |-> TRUE, result |-> None]
    ELSE [ready |-> FALSE, result |-> None]

(***************************************************************************)
(* State.                                                                  *)
(***************************************************************************)
VARIABLES
    gate,             \* OneShotNotifier.tx: the value of the watch channel
    gate_log,         \* every value sent on the channel, in order, with its time
    ntask,            \* SpecGate: the tasks calling notify
    wtask,            \* SpecGate: the tasks calling wait
    now,              \* the clock (std::time::Instant::now), seconds
    failed_attempts,  \* TuicAuthenticationManager.failed_attempts: uuid -> FailedAttempts
    exporter_calls,   \* number of export_keying_material calls made so far
    last,             \* the last authenticate call: its number, inputs, result and the record it found
    streak,           \* per user: token mismatches since the last match, and when the first was
    arch,             \* Spec: which dispatcher of the repository drives the connection
    closed,           \* Spec: connection.close(0xffff) was called
    uni,              \* Spec: the unidirectional role (process_uni)
    bid,              \* Spec: the bidirectional role
    dat,              \* Spec: the datagram role
    tasks,            \* Spec: the spawned command handler tasks
    cmds,             \* Spec: number of commands the client has sent so far
    tcp_connects,     \* Spec: upstream TCP connection attempts made
    udp_sends,        \* Spec: upstream UDP datagrams sent
    udp_sessions,     \* RuntimeContext.udp_sessions: assoc_id -> UdpSession
    sessions,         \* UdpSessionManager.sessions: (client, assoc_id) -> ReassemblyBuffer
    timed_out,        \* Spec: the gate wait of some non-Authenticate command has timed out
    ran_timed_out,    \* Spec: a command whose gate wait had timed out was executed
    store,            \* SpecReasm: the reassembly store the fragments are delivered to
    max_reassembly,   \* UdpSessionManager.max_reassembly_bytes_per_session
    overflow_checks,  \* the build panics on arithmetic overflow (debug) or wraps (release)
    last_op,          \* SpecReasm: the last operation on the store and its outcome
    next_cleanup,     \* the time the cleanup task of UdpSessionManager::new wakes up next
    done_pkts,        \* SpecReasm: the pkt_ids whose packet has been assembled
    last_stored,      \* SpecReasm: the time a fragment was last stored in a buffer
    cap,              \* SpecCap: UdpSessionManager.max_sessions and the calls that never return
    codec,            \* SpecCodec: the last codec call, or the reply being sent to the client
    streams,          \* SpecStreams: the streams the client opened that wait to be accepted
    relay,            \* SpecRelay: one TCP relay between the client and the target
    trojan,           \* SpecTrojan: one Trojan connection
    addr_call,        \* SpecAddr: one call of an address codec or resolver
    listener,         \* SpecAccept: the accept loop of one listener
    frag_race,        \* SpecTake: the tasks delivering fragments to one UdpSession
    auth_race,        \* SpecAuthRace: the connections authenticating at the same time
    sweep,            \* SpecSweep: the cleanup pass running beside receive_fragment
    udp_assoc         \* SpecUdpAssoc: one Trojan UDP association

authVars == <<failed_attempts, exporter_calls, last, streak>>
gateVars == <<gate, gate_log>>
gateTaskVars == <<ntask, wtask>>
connVars == <<arch, closed, uni, bid, dat, tasks, cmds>>
ioVars == <<tcp_connects, udp_sends, udp_sessions, sessions>>
ghostVars == <<timed_out, ran_timed_out>>
reasmVars == <<store, max_reassembly, overflow_checks, last_op, next_cleanup, done_pkts,
              last_stored>>
laterVars == <<addr_call, listener, frag_race, auth_race, sweep, udp_assoc>>
extVars == <<cap, codec, streams, relay, trojan, laterVars>>
vars == <<now, authVars, gateVars, gateTaskVars, connVars, ioVars, ghostVars, extVars,
          reasmVars>>

\* a user without a failed-attempts record
Absent == [count |-> 0, first_failure |-> -1]
record_of(fa, uuid) == IF uuid \in DOMAIN fa THEN fa[uuid] ELSE Absent

NoCall == [n |-> 0, uuid |-> "none", token |-> "none", export_ok |-> FALSE,
           result |-> "none", exported |-> FALSE, before |-> Absent]

\* UdpSessionManager::new: max_sessions is None, no call is blocked
NoCap == [max_sessions |-> None, blocked |-> 0]

\* no codec call was made
NoCodec == [op |-> "none"]

\* the state of the parts a specification does not drive
InitCapVars == cap = NoCap
InitCodecVars == codec = NoCodec

\* no stream was opened by the client
NoStreams == [uni |-> << >>, bi |-> << >>, opened |-> 0, broken |-> {}]
InitStreamVars == streams = NoStreams

\* no relay was started
NoRelay == [pc |-> "none"]
InitRelayVars == relay = NoRelay

\* no Trojan connection was accepted
NoTrojan == [pc |-> "none"]
InitTrojanVars == trojan = NoTrojan

\* no call, loop, task or association of the later specifications
NotStarted == [pc |-> "none"]
InitAddrVars == addr_call = NotStarted
InitListenerVars == listener = NotStarted
InitFragRaceVars == frag_race = NotStarted
InitAuthRaceVars == auth_race = NotStarted
InitSweepVars == sweep = NotStarted
InitUdpAssocVars == udp_assoc = NotStarted
InitLater ==
    /\ InitAddrVars /\ InitListenerVars /\ InitFragRaceVars
    /\ InitAuthRaceVars /\ InitSweepVars /\ InitUdpAssocVars
InitExt ==
    /\ InitCapVars /\ InitCodecVars /\ InitStreamVars /\ InitRelayVars /\ InitTrojanVars
    /\ InitLater

InitAuthVars ==
    /\ failed_attempts = << >>
    /\ exporter_calls = 0
    /\ last = NoCall
    /\ streak = [u \in Users |-> [n |-> 0, start |-> 0]]

\* OneShotNotifier::new
InitGateVars ==
    /\ gate = None
    /\ gate_log = << >>

NotifyTasks == {"n1", "n2"}
WaitTasks == {"w1", "w2"}

InitGateTasks ==
    /\ ntask = [p \in NotifyTasks |-> [pc |-> "idle", v |-> FALSE]]
    /\ wtask = [q \in WaitTasks |-> [pc |-> "idle", start |-> 0, result |-> None]]

\* tx.send(Some(v)): the channel's value is replaced
send(v) ==
    /\ gate' = Some(v)
    /\ gate_log' = Append(gate_log, [v |-> v, t |-> now])

(***************************************************************************)
(* Commands, UDP sessions and the state of one connection.                 *)
(***************************************************************************)
\* Address::None and the one destination the clients of the model name
AddrNone == "None"
AddrTarget == "target"

NoBytes == << >>

\* the fields of a command that the handlers read; unused fields hold defaults
Cmd(kind, uuid, token, assoc_id, pkt_id, frag_total, frag_id, address, payload) ==
    [kind |-> kind, uuid |-> uuid, token |-> token, assoc_id |-> assoc_id,
     pkt_id |-> pkt_id, frag_total |-> frag_total, frag_id |-> frag_id,
     address |-> address, payload |-> payload]

NoCmd == Cmd("none", "none", "none", 0, 0, 0, 0, AddrNone, NoBytes)

AuthenticateCmds ==
    {Cmd("Authenticate", u, k, 0, 0, 0, 0, AddrNone, NoBytes) : u \in Uuids, k \in Tokens}
ConnectCmds == {Cmd("Connect", "none", "none", 0, 0, 0, 0, AddrTarget, NoBytes)}
\* Packet commands: association 1, packet 7, whole (1 fragment) or in 2
\* fragments; only fragment 0 carries the address
PacketCmds ==
    {Cmd("Packet", "none", "none", 1, 7, ft, fi,
         IF fi = 0 THEN AddrTarget ELSE AddrNone, <<fi + 1>>) :
        ft \in {1, 2}, fi \in {0, 1}} \ {Cmd("Packet", "none", "none", 1, 7, 1, 1, AddrNone, <<2>>)}
DissociateCmds == {Cmd("Dissociate", "none", "none", 1, 0, 0, 0, AddrNone, NoBytes)}
HeartbeatCmds == {Cmd("Heartbeat", "none", "none", 0, 0, 0, 0, AddrNone, NoBytes)}
Commands == AuthenticateCmds \cup ConnectCmds \cup PacketCmds \cup DissociateCmds
            \cup HeartbeatCmds

\* Packet::only_one_frag
only_one_frag(packet) == 1 = packet.frag_total

\* UdpSession::new
UdpSession_new == [pakets |-> << >>, address |-> AddrNone]

\* RuntimeContext::get_session: the map after the call (the session is created
\* when it does not exist)
get_session(m, associate_id) ==
    IF associate_id \in DOMAIN m THEN m ELSE map_insert(m, associate_id, UdpSession_new)

\* width of the u128 bitmaps
BITMAP_BITS == 128

\* 1u128 << frag_id: the index of the bit set. A shift by 128 or more panics
\* in a build with overflow checks and wraps the shift amount in one without
shl_overflows(frag_id) == frag_id >= BITMAP_BITS
bit_of(frag_id) == frag_id % BITMAP_BITS

\* a duplicate check that never finds the bit
bit_is_set_never(bitmap, bit) == FALSE

\* (received_bitmap & bit) != 0
bit_is_set(bitmap, bit) == bit \in bitmap

\* UdpSession::accept: the session after the call, the returned Option<u16>,
\* and whether the call panicked (index out of bounds of `received`, or the
\* shift overflow when overflow_checks is on). The address is stored before
\* anything can panic.
accept(session, packet, checks) ==
    LET s1 == IF packet.address # AddrNone
              THEN [session EXCEPT !.address = packet.address]
              ELSE session
        Panicked == [session |-> s1, completed |-> None, panicked |-> TRUE]
    IN IF packet.pkt_id \in DOMAIN s1.pakets
       THEN LET fp == s1.pakets[packet.pkt_id]
            IN IF checks /\ shl_overflows(packet.frag_id) THEN Panicked
               ELSE IF /\ ~bit_is_set(fp.received_bitmap, bit_of(packet.frag_id))
                       /\ packet.frag_id \notin DOMAIN fp.received
               THEN Panicked
               ELSE LET fp1 == IF ~bit_is_set(fp.received_bitmap, bit_of(packet.frag_id))
                               THEN [fp EXCEPT
                                       !.received[packet.frag_id] = Some(packet.payload),
                                       !.received_bitmap = @ \cup {bit_of(packet.frag_id)}]
                               ELSE fp
                    IN [session |-> [s1 EXCEPT !.pakets[packet.pkt_id] = fp1],
                        completed |-> IF Cardinality(fp1.received_bitmap) = fp1.fragment_count
                                      THEN Some(packet.pkt_id) ELSE None,
                        panicked |-> FALSE]
       ELSE IF packet.frag_id >= packet.frag_total THEN Panicked
            ELSE IF checks /\ shl_overflows(packet.frag_id) THEN Panicked
            ELSE [session |->
                    [s1 EXCEPT !.pakets = map_insert(@, packet.pkt_id,
                        [fragment_count |-> packet.frag_total,
                         received_bitmap |-> {bit_of(packet.frag_id)},
                         received |-> [i \in 0..(packet.frag_total - 1) |->
                                          IF i = packet.frag_id THEN Some(packet.payload)
                                          ELSE None]])],
                  completed |-> None,
                  panicked |-> FALSE]

\* the concatenation of the fragments present in received[lo..hi], in
\* descending index order
RECURSIVE concat_range_desc(_, _, _)
concat_range_desc(received, lo, hi) ==
    IF lo > hi THEN << >>
    ELSE IF lo = hi
    THEN (IF is_some(received[lo]) THEN received[lo][1] ELSE << >>)
    ELSE concat_range_desc(received, (lo + hi) \div 2 + 1, hi)
         \o concat_range_desc(received, lo, (lo + hi) \div 2)

\* the concatenation of the fragments present in received[lo..hi], in index
\* order (computed by halves, which keeps the evaluation shallow)
RECURSIVE concat_range(_, _, _)
concat_range(received, lo, hi) ==
    IF lo > hi THEN << >>
    ELSE IF lo = hi
    THEN (IF is_some(received[lo]) THEN received[lo][1] ELSE << >>)
    ELSE concat_range(received, lo, (lo + hi) \div 2)
         \o concat_range(received, (lo + hi) \div 2 + 1, hi)

\* the concatenation of the fragments present in received[from..], in index order
concat_from(received, from) ==
    concat_range(received, from, Cardinality(DOMAIN received) - 1)

\* the packet handed out and left in the map
take_fragmented_packet_kept(session, pkt_id) ==
    IF pkt_id \in DOMAIN session.pakets
    THEN [session |-> session, bytes |-> Some(concat_from(session.pakets[pkt_id].received, 0))]
    ELSE [session |-> session, bytes |-> None]

\* UdpSession::take_fragmented_packet: the session after the call and the
\* returned Option<Bytes>
take_fragmented_packet(session, pkt_id) ==
    IF pkt_id \in DOMAIN session.pakets
    THEN LET fp == session.pakets[pkt_id]
             s1 == [session EXCEPT !.pakets = map_remove(@, pkt_id)]
         IN IF DOMAIN fp.received = {} THEN [session |-> s1, bytes |-> None]
            ELSE IF Cardinality(DOMAIN fp.received) = 1
            THEN [session |-> s1, bytes |-> fp.received[0]]
            ELSE [session |-> s1, bytes |-> Some(concat_from(fp.received, 0))]
    ELSE [session |-> session, bytes |-> None]

\* Address::to_socket_address: None for Address::None, and for a domain
\* address whose lookup fails
to_socket_address(address, lookup_ok) ==
    IF address = AddrNone THEN None
    ELSE IF lookup_ok THEN Some(address) ELSE None

\* PacketProcessor::process after its gate wait: the session map after the
\* call, the payload handed to send_and_recv (None when nothing is sent
\* upstream), the address it is sent to, and whether the handler panicked
packet_process(m0, packet, lookup_ok, checks) ==
    LET m == get_session(m0, packet.assoc_id)
        acc == accept(m[packet.assoc_id], packet, checks)
        taken == take_fragmented_packet(acc.session, packet.pkt_id)
    IN IF only_one_frag(packet)
       THEN [udp_sessions |-> m,
             assembled |-> None,
             sent |-> IF is_some(to_socket_address(packet.address, lookup_ok))
                      THEN Some(packet.payload) ELSE None,
             dest |-> packet.address,
             panicked |-> FALSE]
       ELSE IF acc.panicked
       THEN [udp_sessions |-> [m EXCEPT ![packet.assoc_id] = acc.session],
             assembled |-> None, sent |-> None, dest |-> AddrNone, panicked |-> TRUE]
       ELSE IF is_some(acc.completed)
       THEN [udp_sessions |-> [m EXCEPT ![packet.assoc_id] = taken.session],
             assembled |-> taken.bytes,
             sent |-> IF /\ is_some(taken.bytes)
                         /\ is_some(to_socket_address(taken.session.address, lookup_ok))
                      THEN taken.bytes ELSE None,
             dest |-> taken.session.address,
             panicked |-> FALSE]
       ELSE [udp_sessions |-> [m EXCEPT ![packet.assoc_id] = acc.session],
             assembled |-> None, sent |-> None, dest |-> AddrNone, panicked |-> FALSE]

\* ---- UdpSessionManager: one ReassemblyBuffer per (client, assoc_id) ----
\* ReassemblyBuffer::new
ReassemblyBuffer_new(frag_total, t) ==
    [frag_total |-> frag_total,
     fragments |-> [i \in 0..(frag_total - 1) |-> None],
     received_bitmap |-> {},
     received_count |-> 0,
     total_bytes |-> 0,
     last_update |-> t]

\* a cap check that never rejects
exceeds_cap_never(total_bytes, payload_len, max_total_bytes) == FALSE

\* the per-session byte limit of ReassemblyBuffer::insert
exceeds_cap(total_bytes, payload_len, max_total_bytes) ==
    is_some(max_total_bytes) /\ total_bytes + payload_len > max_total_bytes[1]

\* ReassemblyBuffer::insert: the buffer after the call, the error ("none" for
\* Ok) and the bytes of Ok(Some(bytes))
ReassemblyBuffer_insert(buf, frag_id, payload, max_total_bytes, t) ==
    IF frag_id \notin DOMAIN buf.fragments
    THEN [buffer |-> buf, err |-> "InvalidFragmentId", bytes |-> None]
    ELSE IF bit_is_set(buf.received_bitmap, frag_id)
    THEN [buffer |-> buf, err |-> "none", bytes |-> None]
    ELSE IF exceeds_cap(buf.total_bytes, Len(payload), max_total_bytes)
    THEN [buffer |-> buf, err |-> "SessionTooLarge", bytes |-> None]
    ELSE LET b1 == [buf EXCEPT !.fragments[frag_id] = Some(payload),
                               !.received_bitmap = @ \cup {frag_id},
                               !.received_count = @ + 1,
                               !.total_bytes = @ + Len(payload),
                               !.last_update = t]
         IN IF b1.received_count = b1.frag_total
            THEN IF \A i \in DOMAIN b1.fragments : is_some(b1.fragments[i])
                 THEN [buffer |-> b1, err |-> "none",
                       bytes |-> Some(concat_from(b1.fragments, 0))]
                 ELSE [buffer |-> b1, err |-> "InvalidFragmentId", bytes |-> None]
            ELSE [buffer |-> b1, err |-> "none", bytes |-> None]

\* ReassemblyBuffer::is_expired
is_expired(buf, timeout, t) == t - buf.last_update > timeout

\* UdpSessionManager::receive_fragment with max_sessions not configured (its
\* value after UdpSessionManager::new): the map after the call and the
\* returned Option<Bytes>
receive_fragment(m, frag, client, max_reassembly_bytes, t) ==
    LET key == <<client, frag.assoc_id>>
    IN IF key \in DOMAIN m
       THEN LET r == ReassemblyBuffer_insert(m[key], frag.frag_id, frag.payload,
                                             max_reassembly_bytes, t)
            IN IF r.err = "none"
               THEN [sessions |-> IF is_some(r.bytes) THEN map_remove(m, key)
                                  ELSE [m EXCEPT ![key] = r.buffer],
                     ret |-> r.bytes]
               ELSE [sessions |-> IF r.err = "SessionTooLarge" THEN map_remove(m, key)
                                  ELSE [m EXCEPT ![key] = r.buffer],
                     ret |-> None]
       ELSE IF frag.frag_total > BITMAP_BITS
       THEN [sessions |-> m, ret |-> None]
       ELSE LET r == ReassemblyBuffer_insert(ReassemblyBuffer_new(frag.frag_total, t),
                                             frag.frag_id, frag.payload,
                                             max_reassembly_bytes, t)
            IN IF r.err = "none" /\ ~is_some(r.bytes)
               THEN [sessions |-> map_insert(m, key, r.buffer), ret |-> None]
               ELSE [sessions |-> m, ret |-> r.bytes]

\* UdpSessionManager::cleanup_expired_sessions
cleanup_expired_sessions(m, timeout, t) ==
    [k \in {x \in DOMAIN m : ~is_expired(m[x], timeout, t)} |-> m[k]]

\* UdpSessionManager::remove_session
\* every buffer dropped
remove_session_all(m, client, assoc_id) == << >>

remove_session(m, client, assoc_id) == map_remove(m, <<client, assoc_id>>)

\* ---- UdpSessionManager with max_sessions configured ----
\* whether DashMap::len, iter and remove return when the calling task holds
\* the write lock of a shard through a vacant entry: the shard lock is not
\* reentrant, the call waits for the lock its own task holds
LEN_RETURNS_UNDER_ENTRY == FALSE

\* the key the eviction loop picks: one with the least last_update (the map's
\* iteration order decides between equal ones)
oldest(m) == CHOOSE k \in DOMAIN m : \A j \in DOMAIN m : m[k].last_update <= m[j].last_update

\* the eviction loop: while self.sessions.len() >= max, remove the oldest
RECURSIVE evict(_, _)
evict(m, max) ==
    IF Cardinality(DOMAIN m) >= max /\ DOMAIN m # {}
    THEN evict(map_remove(m, oldest(m)), max)
    ELSE m

\* UdpSessionManager::receive_fragment: the map after the call, the returned
\* Option<Bytes>, and whether the call blocks forever instead of returning
receive_fragment_capped(m, frag, client, max_sessions, max_reassembly_bytes, t) ==
    LET key == <<client, frag.assoc_id>>
        plain == receive_fragment(m, frag, client, max_reassembly_bytes, t)
        evicted == receive_fragment(evict(m, max_sessions[1]), frag, client,
                                    max_reassembly_bytes, t)
    IN IF key \in DOMAIN m \/ frag.frag_total > BITMAP_BITS \/ ~is_some(max_sessions)
       THEN [sessions |-> plain.sessions, ret |-> plain.ret, blocked |-> FALSE]
       ELSE IF ~LEN_RETURNS_UNDER_ENTRY
       THEN [sessions |-> m, ret |-> None, blocked |-> TRUE]
       ELSE [sessions |-> evicted.sessions, ret |-> evicted.ret, blocked |-> FALSE]

\* the peer address of the connection of the model
Client == "client"

\* the handler task of the n-th command of the connection lives in slot n
Tasks == 1..MaxCmds
IdleTask == [kind |-> "idle", pc |-> "done", start |-> 0, auth |-> None, v |-> FALSE,
             cmd |-> NoCmd]

\* the two dispatchers the repository holds: the three role loops of
\* TuicConnectionProcessor, started by TuicServer::start, and
\* CommandUniprocessor::process, called once per received command
Archs == {"TuicConnectionProcessor", "CommandUniprocessor"}

\* no operation on a reassembly store yet
NoOp ==
    [kind |-> "none", frag |-> NoCmd, ret |-> None, sent |-> None, panicked |-> FALSE,
     early |-> FALSE]

\* process_uni at the head of its loop
UniIdle == [pc |-> "accept", start |-> 0, cmd |-> NoCmd, n |-> 0, v |-> FALSE]

\* the state of a connection just accepted
InitConnVars(a) ==
    /\ arch = a
    /\ closed = FALSE
    /\ uni = [UniIdle EXCEPT !.pc = IF a = "TuicConnectionProcessor" THEN "accept" ELSE "off"]
    /\ bid = [pc |-> IF a = "TuicConnectionProcessor" THEN "gate" ELSE "idle", start |-> 0]
    /\ dat = [pc |-> IF a = "TuicConnectionProcessor" THEN "gate" ELSE "off", start |-> 0]
    /\ tasks = [i \in Tasks |-> IdleTask]
    /\ cmds = 0
    /\ tcp_connects = 0
    /\ udp_sends = 0
    /\ udp_sessions = << >>
    /\ sessions = << >>
    /\ timed_out = FALSE
    /\ ran_timed_out = FALSE
    /\ store = "none"
    /\ max_reassembly = None
    /\ overflow_checks = TRUE
    /\ last_op = NoOp
    /\ next_cleanup = CLEANUP_INTERVAL
    /\ done_pkts = {}
    /\ last_stored = 0

\* the bookkeeping of mismatches per user, kept beside the code's own record
streak_after(uuid, result, t) ==
    IF uuid \notin Users THEN streak
    ELSE IF result = "Ok" THEN [streak EXCEPT ![uuid] = [n |-> 0, start |-> 0]]
    ELSE IF result = "Unauthenticated access"
    THEN [streak EXCEPT ![uuid] = IF @.n = 0 THEN [n |-> 1, start |-> t]
                                  ELSE [@ EXCEPT !.n = @ + 1]]
    ELSE streak

\* One call of authenticate: the state change shared by every caller.
DoAuthenticate(uuid, token, export_ok) ==
    LET r == authenticate(failed_attempts, uuid, token, export_ok, now)
    IN /\ failed_attempts' = r.failed_attempts
       /\ exporter_calls' = exporter_calls + (IF r.exported THEN 1 ELSE 0)
       /\ last' = [n |-> last.n + 1, uuid |-> uuid, token |-> token,
                   export_ok |-> export_ok, result |-> r.result,
                   exported |-> r.exported,
                   before |-> record_of(failed_attempts, uuid)]
       /\ streak' = streak_after(uuid, r.result, now)

(***************************************************************************)
(* SpecAuth: sequential authenticate calls and the passing of time.        *)
(***************************************************************************)
AuthTimeSteps == {1800, 1801}

InitAuth ==
    /\ now = 0
    /\ InitAuthVars
    /\ InitGateVars
    /\ InitGateTasks
    /\ InitExt
    /\ InitConnVars("TuicConnectionProcessor")

\* a client sends Authenticate { uuid, token } and authenticate runs to its end
AuthAttempt ==
    /\ last.n < MaxAuthCalls
    /\ \E uuid \in Uuids, token \in Tokens, export_ok \in BOOLEAN :
          DoAuthenticate(uuid, token, export_ok)
    /\ UNCHANGED <<now, gateVars, gateTaskVars, connVars, ioVars, ghostVars, extVars, reasmVars>>

\* time passes between two calls
AuthAdvance ==
    /\ \E d \in AuthTimeSteps :
          /\ now + d <= MaxAuthNow
          /\ now' = now + d
    /\ UNCHANGED <<authVars, gateVars, gateTaskVars, connVars, ioVars, ghostVars, extVars, reasmVars>>

NextAuth == AuthAttempt \/ AuthAdvance

SpecAuth == InitAuth /\ [][NextAuth]_vars

(***************************************************************************)
(* SpecGate: one OneShotNotifier shared by tasks that call notify and      *)
(* tasks that call wait, on a multi-threaded runtime.                      *)
(***************************************************************************)
InitGate ==
    /\ now = 0
    /\ InitAuthVars
    /\ InitGateVars
    /\ InitGateTasks
    /\ InitExt
    /\ InitConnVars("TuicConnectionProcessor")

\* notify(v), first statement: `if self.tx.borrow().is_some() { return; }`.
\* The borrow guard is dropped before the send below.
NotifyCheck(p, v) ==
    /\ ntask[p].pc = "idle"
    /\ ntask' = [ntask EXCEPT ![p] =
                    [pc |-> IF is_some(gate) THEN "done" ELSE "send", v |-> v]]
    /\ UNCHANGED <<now, authVars, gateVars, wtask, connVars, ioVars, ghostVars, extVars, reasmVars>>

\* notify(v), second statement: `self.tx.send(Some(v))` (the notifier keeps a
\* receiver, so the send cannot fail)
NotifySend(p) ==
    /\ ntask[p].pc = "send"
    /\ send(ntask[p].v)
    /\ ntask' = [ntask EXCEPT ![p].pc = "done"]
    /\ UNCHANGED <<now, authVars, wtask, connVars, ioVars, ghostVars, extVars, reasmVars>>

\* wait(): subscribe, then the fast path `if let Some(v) = *rx.borrow()`;
\* otherwise the timeout of WAIT_SECS starts now
WaitStart(q) ==
    /\ wtask[q].pc = "idle"
    /\ wtask' = [wtask EXCEPT ![q] =
                    IF is_some(gate)
                    THEN [pc |-> "done", start |-> now, result |-> gate]
                    ELSE [pc |-> "waiting", start |-> now, result |-> None]]
    /\ UNCHANGED <<now, authVars, gateVars, ntask, connVars, ioVars, ghostVars, extVars, reasmVars>>

\* wait(): the task is polled and timeout(dur, fut) is ready
WaitReturn(q) ==
    /\ wtask[q].pc = "waiting"
    /\ LET r == wait_poll(gate, wtask[q].start, now)
       IN /\ r.ready
          /\ wtask' = [wtask EXCEPT ![q].pc = "done", ![q].result = r.result]
    /\ UNCHANGED <<now, authVars, gateVars, ntask, connVars, ioVars, ghostVars, extVars, reasmVars>>

\* one second passes
GateTick ==
    /\ now < MaxGateNow
    /\ now' = now + 1
    /\ UNCHANGED <<authVars, gateVars, gateTaskVars, connVars, ioVars, ghostVars, extVars, reasmVars>>

NextGate ==
    \/ \E p \in NotifyTasks, v \in BOOLEAN : NotifyCheck(p, v)
    \/ \E p \in NotifyTasks : NotifySend(p)
    \/ \E q \in WaitTasks : WaitStart(q)
    \/ \E q \in WaitTasks : WaitReturn(q)
    \/ GateTick

SpecGate == InitGate /\ [][NextGate]_vars

(***************************************************************************)
(* Spec: one accepted TUIC connection.                                     *)
(***************************************************************************)
Init ==
    /\ now = 0
    /\ InitAuthVars
    /\ InitGateVars
    /\ InitGateTasks
    /\ InitExt
    /\ \E a \in Archs : InitConnVars(a)

\* AuthenticateProcessor::verify(authenticate, connection), called by
\* process_uni: the authentication steps on the manager
verify(fa, cmd, export_ok, t) == authenticate(fa, cmd.uuid, cmd.token, export_ok, t)

\* tokio::spawn of the handler of one command
Spawned(kind, pc, cmd) ==
    [kind |-> kind, pc |-> pc, start |-> now, auth |-> None, v |-> FALSE, cmd |-> cmd]

\* ---- TuicConnectionProcessor::process_uni ----
\* accept_uni, Command::read_from and the match on the command
UniAccept(c) ==
    /\ arch = "TuicConnectionProcessor"
    /\ uni.pc = "accept"
    /\ ~closed
    /\ cmds < MaxCmds
    /\ cmds' = cmds + 1
    /\ IF c.kind = "Authenticate"
       THEN \E export_ok \in BOOLEAN :
              /\ DoAuthenticate(c.uuid, c.token, export_ok)
              /\ uni' = [pc |-> "notify", start |-> now, cmd |-> c, n |-> cmds + 1,
                         v |-> verify(failed_attempts, c, export_ok, now).result = "Ok"]
       ELSE /\ UNCHANGED authVars
            /\ IF c.kind \in {"Packet", "Dissociate"}
               THEN uni' = [pc |-> "wait", start |-> now, cmd |-> c, n |-> cmds + 1, v |-> FALSE]
               ELSE uni' = uni
    /\ UNCHANGED <<now, gateVars, gateTaskVars, arch, closed, bid, dat, tasks, ioVars, ghostVars, extVars, reasmVars>>

\* notifier.notify(v), the check of the channel
UniNotifyCheck ==
    /\ uni.pc = "notify"
    /\ uni' = IF is_some(gate) THEN UniIdle ELSE [uni EXCEPT !.pc = "send"]
    /\ UNCHANGED <<now, authVars, gateVars, gateTaskVars, arch, closed, bid, dat, tasks, cmds,
                   ioVars, ghostVars, extVars, reasmVars>>

\* notifier.notify(v), the send
UniNotifySend ==
    /\ uni.pc = "send"
    /\ send(uni.v)
    /\ uni' = UniIdle
    /\ UNCHANGED <<now, authVars, gateTaskVars, arch, closed, bid, dat, tasks, cmds,
                   ioVars, ghostVars, extVars, reasmVars>>

\* rx.wait() of a Packet or Dissociate read from a unidirectional stream:
\* the handler is spawned on Some(true) only
UniWait ==
    /\ uni.pc = "wait"
    /\ LET r == wait_poll(gate, uni.start, now)
       IN /\ r.ready
          /\ tasks' = IF r.result = Some(TRUE)
                      THEN [tasks EXCEPT ![uni.n] = Spawned(uni.cmd.kind, "gate", uni.cmd)]
                      ELSE tasks
          /\ timed_out' = (timed_out \/ r.result = None)
    /\ uni' = UniIdle
    /\ UNCHANGED <<now, authVars, gateVars, gateTaskVars, arch, closed, bid, dat, cmds,
                   ioVars, ran_timed_out, extVars, reasmVars>>

\* ---- the bidirectional role ----
\* the gate wait in front of the role: TuicServer::start (t_bid), and
\* ConnectProcessor::process; the role runs on Some(true) only
BidGate ==
    /\ bid.pc = "gate"
    /\ LET r == wait_poll(gate, bid.start, now)
       IN /\ r.ready
          /\ bid' = [bid EXCEPT !.pc = IF r.result = Some(TRUE) THEN "accept" ELSE "gate_exit"]
    /\ UNCHANGED <<now, authVars, gateVars, gateTaskVars, arch, closed, uni, dat, tasks, cmds,
                   ioVars, ghostVars, extVars, reasmVars>>

\* accept_bi and Command::read_from: a Connect spawns the relay;
\* process_bidirectional closes the connection on any other command,
\* ConnectProcessor::process bails
BidAccept(c) ==
    /\ bid.pc = "accept"
    /\ ~closed
    /\ cmds < MaxCmds
    /\ cmds' = cmds + 1
    /\ IF c.kind = "Connect"
       THEN /\ tasks' = [tasks EXCEPT ![cmds + 1] = Spawned("Connect", "run", c)]
            /\ UNCHANGED <<closed, bid>>
       ELSE /\ closed' = (arch = "TuicConnectionProcessor")
            /\ bid' = IF arch = "TuicConnectionProcessor" THEN bid
                      ELSE [bid EXCEPT !.pc = "bail"]
            /\ UNCHANGED tasks
    /\ UNCHANGED <<now, authVars, gateVars, gateTaskVars, arch, uni, dat, ioVars, ghostVars, extVars, reasmVars>>

\* ---- the datagram role ----
\* the gate wait in front of the role: TuicServer::start (t_dat)
DatGate ==
    /\ dat.pc = "gate"
    /\ LET r == wait_poll(gate, dat.start, now)
       IN /\ r.ready
          /\ dat' = [dat EXCEPT !.pc = IF r.result = Some(TRUE) THEN "accept" ELSE "gate_exit"]
    /\ UNCHANGED <<now, authVars, gateVars, gateTaskVars, arch, closed, uni, bid, tasks, cmds,
                   ioVars, ghostVars, extVars, reasmVars>>

\* process_datagram: read_datagram and the match on the command
DatAccept(c) ==
    /\ dat.pc = "accept"
    /\ ~closed
    /\ cmds < MaxCmds
    /\ cmds' = cmds + 1
    /\ tasks' = IF c.kind \in {"Packet", "Heartbeat"}
                THEN [tasks EXCEPT ![cmds + 1] = Spawned(c.kind, "gate", c)]
                ELSE tasks
    /\ UNCHANGED <<now, authVars, gateVars, gateTaskVars, arch, closed, uni, bid, dat,
                   ioVars, ghostVars, extVars, reasmVars>>

\* ---- CommandUniprocessor::process ----
\* process(context, connection, Some(command)): the handler of the command
\* runs; a Connect is refused ("This must not happen!")
Dispatch(c) ==
    /\ arch = "CommandUniprocessor"
    /\ cmds < MaxCmds
    /\ cmds' = cmds + 1
    /\ tasks' = IF c.kind = "Connect" THEN tasks
                ELSE [tasks EXCEPT ![cmds + 1] =
                        Spawned(c.kind, IF c.kind = "Authenticate" THEN "run" ELSE "gate", c)]
    /\ UNCHANGED <<now, authVars, gateVars, gateTaskVars, arch, closed, uni, bid, dat,
                   ioVars, ghostVars, extVars, reasmVars>>

\* process(context, connection, None): ConnectProcessor::process starts
DispatchNone ==
    /\ arch = "CommandUniprocessor"
    /\ bid.pc = "idle"
    /\ bid' = [pc |-> "gate", start |-> now]
    /\ UNCHANGED <<now, authVars, gateVars, gateTaskVars, arch, closed, uni, dat, tasks, cmds,
                   ioVars, ghostVars, extVars, reasmVars>>

\* ---- the command handlers (processor/tuic/command) ----
\* AuthenticateProcessor::process: password lookup, exporter, verify_token,
\* then auth_done(true) or auth_done(false)
AuthenticateRun(i) ==
    /\ tasks[i].kind = "Authenticate"
    /\ tasks[i].pc = "run"
    /\ LET a == tasks[i].cmd
       IN IF a.uuid \notin DOMAIN users
          THEN /\ tasks' = [tasks EXCEPT ![i] = IdleTask]
               /\ UNCHANGED exporter_calls
          ELSE \E export_ok \in BOOLEAN :
                 /\ exporter_calls' = exporter_calls + 1
                 /\ tasks' = IF export_ok
                             THEN [tasks EXCEPT ![i].pc = "notify",
                                   ![i].v = verify_token(a.token,
                                              export_keying_material(a.uuid, users[a.uuid]))]
                             ELSE [tasks EXCEPT ![i] = IdleTask]
    /\ UNCHANGED <<now, failed_attempts, last, streak, gateVars, gateTaskVars, arch, closed,
                   uni, bid, dat, cmds, ioVars, ghostVars, extVars, reasmVars>>

\* RuntimeContext::auth_done -> notify(v), the check of the channel
TaskNotifyCheck(i) ==
    /\ tasks[i].pc = "notify"
    /\ tasks' = IF is_some(gate) THEN [tasks EXCEPT ![i] = IdleTask]
                ELSE [tasks EXCEPT ![i].pc = "send"]
    /\ UNCHANGED <<now, authVars, gateVars, gateTaskVars, arch, closed, uni, bid, dat, cmds,
                   ioVars, ghostVars, extVars, reasmVars>>

\* RuntimeContext::auth_done -> notify(v), the send
TaskNotifySend(i) ==
    /\ tasks[i].pc = "send"
    /\ send(tasks[i].v)
    /\ tasks' = [tasks EXCEPT ![i] = IdleTask]
    /\ UNCHANGED <<now, authVars, gateTaskVars, arch, closed, uni, bid, dat, cmds,
                   ioVars, ghostVars, extVars, reasmVars>>

\* context.wait_for_auth() at the head of the Packet, Dissociate and
\* Heartbeat handlers. HeartbeatProcessor bails unless the result is
\* Some(true) and otherwise only logs; PacketProcessor and DissociateProcess
\* drop the result and go on
HandlerGate(i) ==
    /\ tasks[i].pc = "gate"
    /\ LET r == wait_poll(gate, tasks[i].start, now)
       IN /\ r.ready
          /\ tasks' = IF tasks[i].kind = "Heartbeat"
                      THEN [tasks EXCEPT ![i] = IdleTask]
                      ELSE [tasks EXCEPT ![i].pc = "run", ![i].auth = r.result]
          /\ timed_out' = (timed_out \/ r.result = None)
    /\ UNCHANGED <<now, authVars, gateVars, gateTaskVars, arch, closed, uni, bid, dat, cmds,
                   ioVars, ran_timed_out, extVars, reasmVars>>

\* PacketProcessor::process after the gate wait
PacketRun(i) ==
    /\ tasks[i].kind = "Packet"
    /\ tasks[i].pc = "run"
    /\ \E lookup_ok \in BOOLEAN :
         LET r == packet_process(udp_sessions, tasks[i].cmd, lookup_ok, overflow_checks)
         IN /\ udp_sessions' = r.udp_sessions
            /\ udp_sends' = IF is_some(r.sent) THEN udp_sends + 1 ELSE udp_sends
    /\ ran_timed_out' = (ran_timed_out \/ tasks[i].auth = None)
    /\ tasks' = [tasks EXCEPT ![i] = IdleTask]
    /\ UNCHANGED <<now, authVars, gateVars, gateTaskVars, arch, closed, uni, bid, dat, cmds,
                   tcp_connects, sessions, timed_out, extVars, reasmVars>>

\* DissociateProcess::process after the gate wait
DissociateRun(i) ==
    /\ tasks[i].kind = "Dissociate"
    /\ tasks[i].pc = "run"
    /\ sessions' = remove_session(sessions, Client, tasks[i].cmd.assoc_id)
    /\ ran_timed_out' = (ran_timed_out \/ tasks[i].auth = None)
    /\ tasks' = [tasks EXCEPT ![i] = IdleTask]
    /\ UNCHANGED <<now, authVars, gateVars, gateTaskVars, arch, closed, uni, bid, dat, cmds,
                   tcp_connects, udp_sends, udp_sessions, timed_out, extVars, reasmVars>>

\* the relay task of a Connect: resolve the target, connect_with_keepalive
ConnectRun(i) ==
    /\ tasks[i].kind = "Connect"
    /\ tasks[i].pc = "run"
    /\ \E lookup_ok \in BOOLEAN :
         tcp_connects' = IF is_some(to_socket_address(tasks[i].cmd.address, lookup_ok))
                         THEN tcp_connects + 1 ELSE tcp_connects
    /\ tasks' = [tasks EXCEPT ![i] = IdleTask]
    /\ UNCHANGED <<now, authVars, gateVars, gateTaskVars, arch, closed, uni, bid, dat, cmds,
                   udp_sends, udp_sessions, sessions, ghostVars, extVars, reasmVars>>

\* one second passes
Tick ==
    /\ now < MaxNow
    /\ now' = now + 1
    /\ UNCHANGED <<authVars, gateVars, gateTaskVars, connVars, ioVars, ghostVars, extVars, reasmVars>>

Next ==
    \/ \E c \in Commands : UniAccept(c)
    \/ UniNotifyCheck
    \/ UniNotifySend
    \/ UniWait
    \/ BidGate
    \/ \E c \in Commands : BidAccept(c)
    \/ DatGate
    \/ \E c \in Commands : DatAccept(c)
    \/ \E c \in Commands : Dispatch(c)
    \/ DispatchNone
    \/ \E i \in Tasks : AuthenticateRun(i)
    \/ \E i \in Tasks : TaskNotifyCheck(i)
    \/ \E i \in Tasks : TaskNotifySend(i)
    \/ \E i \in Tasks : HandlerGate(i)
    \/ \E i \in Tasks : PacketRun(i)
    \/ \E i \in Tasks : DissociateRun(i)
    \/ \E i \in Tasks : ConnectRun(i)
    \/ Tick

Spec == Init /\ [][Next]_vars

(***************************************************************************)
(* SpecReasm: the fragments of Packet commands of one authenticated client *)
(* delivered to one of the two reassembly stores of the repository:        *)
(* UdpSession (through PacketProcessor::process) or UdpSessionManager      *)
(* (receive_fragment), with Dissociate and the periodic cleanup.           *)
(***************************************************************************)
Stores == {"UdpSession", "UdpSessionManager"}

\* the payload of fragment frag_id of packet pkt_id: one byte that names the
\* packet and the fragment, or (alt) that byte twice
FragByte(pkt_id, frag_id) == 10 * pkt_id + (frag_id % 10)
FragPayload(pkt_id, frag_id, alt) ==
    IF alt THEN <<FragByte(pkt_id, frag_id), FragByte(pkt_id, frag_id)>>
    ELSE <<FragByte(pkt_id, frag_id)>>

\* a Packet as Packet::read_from returns it: no relation between frag_id and
\* frag_total is checked; the address travels on fragment 0
Fragment(pkt_id, frag_total, frag_id, alt) ==
    Cmd("Packet", "none", "none", 1, pkt_id, frag_total, frag_id,
        IF frag_id = 0 THEN AddrTarget ELSE AddrNone, FragPayload(pkt_id, frag_id, alt))

\* the Packet commands a client sends. Packet 7 whole, in 2 and in 3
\* fragments (fragment 0 also with a second payload); packet 7 with a
\* frag_id that is not below its frag_total; packet 7 announced with 129
\* fragments; packet 8 in 2 fragments
ReasmPackets ==
    {Fragment(7, 1, 0, FALSE)}
    \cup {Fragment(7, 2, fi, FALSE) : fi \in 0..1}
    \cup {Fragment(7, 3, fi, FALSE) : fi \in 0..2}
    \cup {Fragment(7, 2, 0, TRUE)}
    \cup {Fragment(7, 0, 0, FALSE), Fragment(7, 2, 2, FALSE)}
    \cup {Fragment(7, BITMAP_BITS + 1, BITMAP_BITS, FALSE)}
    \cup {Fragment(8, 2, fi, FALSE) : fi \in 0..1}

\* UdpFragment::from_packet
from_packet(packet) ==
    [assoc_id |-> packet.assoc_id, pkt_id |-> packet.pkt_id, frag_id |-> packet.frag_id,
     frag_total |-> packet.frag_total, payload |-> packet.payload]

InitReasm ==
    /\ now = 0
    /\ InitAuthVars
    /\ InitGateTasks
    /\ InitExt
    /\ gate = Some(TRUE)
    /\ gate_log = <<[v |-> TRUE, t |-> 0]>>
    /\ arch = "CommandUniprocessor"
    /\ closed = FALSE
    /\ uni = [UniIdle EXCEPT !.pc = "off"]
    /\ bid = [pc |-> "idle", start |-> 0]
    /\ dat = [pc |-> "off", start |-> 0]
    /\ tasks = [i \in Tasks |-> IdleTask]
    /\ cmds = 0
    /\ tcp_connects = 0
    /\ udp_sends = 0
    /\ udp_sessions = << >>
    /\ sessions = << >>
    /\ timed_out = FALSE
    /\ ran_timed_out = FALSE
    /\ store \in Stores
    /\ max_reassembly \in IF store = "UdpSessionManager"
                          THEN {None, Some(MAX_REASSEMBLY_BYTES)} ELSE {None}
    /\ overflow_checks \in IF store = "UdpSession" THEN BOOLEAN ELSE {TRUE}
    /\ last_op = NoOp
    /\ next_cleanup = CLEANUP_INTERVAL
    /\ done_pkts = {}
    /\ last_stored = 0

\* a Packet handled by PacketProcessor::process (the store is UdpSession);
\* the name of the target resolves
SessionPacket(p) ==
    /\ store = "UdpSession"
    /\ LET r == packet_process(udp_sessions, p, TRUE, overflow_checks)
           before == IF p.assoc_id \in DOMAIN udp_sessions
                     THEN udp_sessions[p.assoc_id].pakets ELSE << >>
           stored == r.udp_sessions[p.assoc_id].pakets # before /\ ~is_some(r.assembled)
       IN /\ udp_sessions' = r.udp_sessions
          /\ last_op' = [kind |-> "packet", frag |-> p, ret |-> r.assembled,
                         sent |-> r.sent, panicked |-> r.panicked,
                         early |-> FALSE]
          /\ done_pkts' = IF is_some(r.assembled) THEN done_pkts \cup {p.pkt_id}
                          ELSE done_pkts
          /\ last_stored' = IF stored THEN now ELSE last_stored
    /\ UNCHANGED <<now, authVars, gateVars, gateTaskVars, connVars, tcp_connects, udp_sends,
                   sessions, ghostVars, extVars, store, max_reassembly, overflow_checks, next_cleanup>>

\* a Packet handed to UdpSessionManager::receive_fragment
ManagerReceive(p) ==
    /\ store = "UdpSessionManager"
    /\ LET r == receive_fragment(sessions, from_packet(p), Client, max_reassembly, now)
           key == <<Client, p.assoc_id>>
       IN /\ sessions' = r.sessions
          /\ last_op' = [kind |-> "packet", frag |-> p, ret |-> r.ret, sent |-> None,
                         panicked |-> FALSE, early |-> FALSE]
          /\ done_pkts' = IF is_some(r.ret) THEN done_pkts \cup {p.pkt_id} ELSE done_pkts
          /\ last_stored' = IF key \in DOMAIN r.sessions
                               /\ (key \notin DOMAIN sessions \/ r.sessions[key] # sessions[key])
                            THEN now ELSE last_stored
    /\ UNCHANGED <<now, authVars, gateVars, gateTaskVars, connVars, tcp_connects, udp_sends,
                   udp_sessions, ghostVars, extVars, store, max_reassembly, overflow_checks,
                   next_cleanup>>

\* ---- a packet of BITMAP_BITS fragments, delivered back to back ----
\* the orders in which the fragments of the large packet arrive
Orders == {"ascending", "descending", "evens_first"}

\* the frag_id of the k-th arrival (k in 1..n) of a packet of n fragments
ArrivalOrder(order, n, k) ==
    IF order = "ascending" THEN k - 1
    ELSE IF order = "descending" THEN n - k
    ELSE IF k <= (n + 1) \div 2 THEN 2 * (k - 1) ELSE 2 * (k - (n + 1) \div 2) - 1

\* the k-th arrival of the large packet (pkt_id 9)
BurstFragment(order, k) == Fragment(9, BITMAP_BITS, ArrivalOrder(order, BITMAP_BITS, k), FALSE)

\* the state before the first arrival
BurstStart(m) ==
    [store |-> m, ret |-> None, sent |-> None, panicked |-> FALSE, early |-> FALSE]

\* PacketProcessor::process called for arrivals lo..hi, one after the other,
\* until a call panics: the store and the outcome of the last call, and
\* whether a call before the last one assembled a payload
RECURSIVE session_burst(_, _, _, _, _)
session_burst(acc, order, lo, hi, checks) ==
    IF lo = hi
    THEN LET r == packet_process(acc.store, BurstFragment(order, lo), TRUE, checks)
         IN [store |-> r.udp_sessions, ret |-> r.assembled, sent |-> r.sent,
             panicked |-> r.panicked, early |-> acc.early \/ is_some(acc.ret)]
    ELSE LET left == session_burst(acc, order, lo, (lo + hi) \div 2, checks)
         IN IF left.panicked THEN left
            ELSE session_burst(left, order, (lo + hi) \div 2 + 1, hi, checks)

\* UdpSessionManager::receive_fragment called for arrivals lo..hi, until a
\* call returns a payload
RECURSIVE manager_burst(_, _, _, _, _, _)
manager_burst(acc, order, lo, hi, max_reassembly_bytes, t) ==
    IF lo = hi
    THEN LET r == receive_fragment(acc.store, from_packet(BurstFragment(order, lo)),
                                   Client, max_reassembly_bytes, t)
         IN [store |-> r.sessions, ret |-> r.ret, sent |-> None, panicked |-> FALSE,
             early |-> acc.early \/ is_some(acc.ret)]
    ELSE LET left == manager_burst(acc, order, lo, (lo + hi) \div 2, max_reassembly_bytes, t)
         IN IF is_some(left.ret) THEN [left EXCEPT !.early = TRUE]
            ELSE manager_burst(left, order, (lo + hi) \div 2 + 1, hi,
                               max_reassembly_bytes, t)

\* the BITMAP_BITS fragments of one packet arrive, as the first traffic of
\* the connection
ReasmBurst(order) ==
    /\ last_op = NoOp
    /\ LET r == IF store = "UdpSession"
                THEN session_burst(BurstStart(udp_sessions), order, 1, BITMAP_BITS,
                                   overflow_checks)
                ELSE manager_burst(BurstStart(sessions), order, 1, BITMAP_BITS,
                                   max_reassembly, now)
       IN /\ udp_sessions' = IF store = "UdpSession" THEN r.store ELSE udp_sessions
          /\ sessions' = IF store = "UdpSession" THEN sessions ELSE r.store
          /\ last_op' = [kind |-> "burst", frag |-> BurstFragment(order, BITMAP_BITS),
                         ret |-> r.ret, sent |-> r.sent, panicked |-> r.panicked,
                         early |-> r.early]
    /\ UNCHANGED <<now, authVars, gateVars, gateTaskVars, connVars, tcp_connects, udp_sends,
                   ghostVars, extVars, store, max_reassembly, overflow_checks, next_cleanup,
                   done_pkts, last_stored>>

\* a Dissociate handled by DissociateProcess::process
\* the associations a Dissociate names: the one of the packets and one that
\* was never used
ReasmAssocs == 1..2

ReasmDissociate(a) ==
    /\ sessions' = remove_session(sessions, Client, a)
    /\ last_op' = [NoOp EXCEPT !.kind = "dissociate", !.frag.assoc_id = a]
    /\ UNCHANGED <<now, authVars, gateVars, gateTaskVars, connVars, tcp_connects, udp_sends,
                   udp_sessions, ghostVars, extVars, store, max_reassembly, overflow_checks,
                   next_cleanup, done_pkts, last_stored>>

\* one round of the cleanup task: sleep(cleanup_interval) is over,
\* cleanup_expired_sessions runs, the task sleeps again
Cleanup ==
    /\ now >= next_cleanup
    /\ sessions' = cleanup_expired_sessions(sessions, SESSION_TIMEOUT, now)
    /\ next_cleanup' = now + CLEANUP_INTERVAL
    /\ last_op' = [NoOp EXCEPT !.kind = "cleanup"]
    /\ UNCHANGED <<now, authVars, gateVars, gateTaskVars, connVars, tcp_connects, udp_sends,
                   udp_sessions, ghostVars, extVars, store, max_reassembly, overflow_checks,
                   done_pkts, last_stored>>

\* one second passes
ReasmTick ==
    /\ now < MaxReasmNow
    /\ now' = now + 1
    /\ UNCHANGED <<authVars, gateVars, gateTaskVars, connVars, ioVars, ghostVars, extVars, reasmVars>>

NextReasm ==
    \/ \E p \in ReasmPackets : SessionPacket(p)
    \/ \E p \in ReasmPackets : ManagerReceive(p)
    \/ \E order \in Orders : ReasmBurst(order)
    \/ \E a \in ReasmAssocs : ReasmDissociate(a)
    \/ Cleanup
    \/ ReasmTick

SpecReasm == InitReasm /\ [][NextReasm]_vars

(***************************************************************************)
(* The wire format of Packet (protocol/tuic): bytes are 0..255, a stream   *)
(* is a sequence of bytes, integers are written big-endian.                *)
(***************************************************************************)
MAX_PAYLOAD_PER_PACKET == 1200
VERSION_V5 == 5
COMMAND_TYPE_PACKET == 2
ADDRESS_TYPE_DOMAIN == 0
ADDRESS_TYPE_IPV4 == 1
ADDRESS_TYPE_IPV6 == 2
ADDRESS_TYPE_NONE == 255

\* a failed read
ReadErr == [ok |-> FALSE]
ReadOk(value, rest) == [ok |-> TRUE, value |-> value, rest |-> rest]

\* a read that returns the bytes that are there when fewer than n are left
read_available(stream, n) ==
    IF Len(stream) < n THEN ReadOk(stream, << >>)
    ELSE ReadOk(SubSeq(stream, 1, n), SubSeq(stream, n + 1, Len(stream)))

\* AsyncReadExt::read_exact (and read_u8, read_u16, ...): n bytes, or an
\* error when the stream ends before
read_exact(stream, n) ==
    IF Len(stream) < n THEN ReadErr
    ELSE ReadOk(SubSeq(stream, 1, n), SubSeq(stream, n + 1, Len(stream)))

\* BufMut::put_u16 and the value read_u16 returns
put_u16(v) == <<v \div 256, v % 256>>
u16_of(bytes) == bytes[1] * 256 + bytes[2]

\* String::from_utf8 on the domain bytes (the domains of the model are ASCII)
from_utf8_ok(bytes) == \A i \in DOMAIN bytes : bytes[i] < 128

\* the Address values: the parsed value and the bytes it was parsed from
AddressNone == [kind |-> "None"]
SocketAddress(ip, port, cache) ==
    [kind |-> "SocketAddress", ip |-> ip, port |-> port, cache |-> cache]
DomainAddress(domain, port, cache) ==
    [kind |-> "DomainAddress", domain |-> domain, port |-> port, cache |-> cache]

\* Address::write_to_buf
Address_write_to_buf(address) ==
    IF address.kind = "None" THEN <<ADDRESS_TYPE_NONE>> ELSE address.cache

\* Address::read_from for an IP address of n bytes
ip_read_from(type, n, stream) ==
    LET ip == read_exact(stream, n)
        port == read_exact(ip.rest, 2)
    IN IF ~ip.ok THEN ReadErr
       ELSE IF ~port.ok THEN ReadErr
       ELSE ReadOk(SocketAddress(ip.value, u16_of(port.value),
                                 <<type>> \o ip.value \o put_u16(u16_of(port.value))),
                   port.rest)

\* Address::read_from for a domain
domain_read_from(stream) ==
    LET len == read_exact(stream, 1)
        domain == read_exact(len.rest, len.value[1])
        port == read_exact(domain.rest, 2)
    IN IF ~len.ok THEN ReadErr
       ELSE IF ~domain.ok THEN ReadErr
       ELSE IF ~from_utf8_ok(domain.value) THEN ReadErr
       ELSE IF ~port.ok THEN ReadErr
       ELSE ReadOk(DomainAddress(domain.value, u16_of(port.value),
                                 <<ADDRESS_TYPE_DOMAIN, len.value[1]>> \o domain.value
                                     \o put_u16(u16_of(port.value))),
                   port.rest)

\* Address::read_from
Address_read_from(stream) ==
    LET type == read_exact(stream, 1)
    IN IF ~type.ok THEN ReadErr
       ELSE IF type.value[1] = ADDRESS_TYPE_DOMAIN THEN domain_read_from(type.rest)
       ELSE IF type.value[1] = ADDRESS_TYPE_IPV4
       THEN ip_read_from(ADDRESS_TYPE_IPV4, 4, type.rest)
       ELSE IF type.value[1] = ADDRESS_TYPE_IPV6
       THEN ip_read_from(ADDRESS_TYPE_IPV6, 16, type.rest)
       ELSE IF type.value[1] = ADDRESS_TYPE_NONE THEN ReadOk(AddressNone, type.rest)
       ELSE ReadErr

\* Header::new(CommandType::Packet), Header::write_to, Header::read_from
PacketHeader == [version |-> VERSION_V5, command_type |-> COMMAND_TYPE_PACKET]
Header_write_to(header) == <<header.version, header.command_type>>
Header_read_from(stream) ==
    LET version == read_exact(stream, 1)
        type == read_exact(version.rest, 1)
    IN IF ~version.ok THEN ReadErr
       ELSE IF version.value[1] # VERSION_V5 THEN ReadErr
       ELSE IF ~type.ok THEN ReadErr
       ELSE IF type.value[1] \notin 0..4 THEN ReadErr
       ELSE ReadOk([version |-> version.value[1], command_type |-> type.value[1]],
                   type.rest)

\* the Packet struct
Packet(assoc_id, pkt_id, frag_total, frag_id, address, payload) ==
    [header |-> PacketHeader, assoc_id |-> assoc_id, pkt_id |-> pkt_id,
     frag_total |-> frag_total, frag_id |-> frag_id, size |-> Len(payload) % 65536,
     address |-> address, payload |-> payload]

\* Packet::write_to_buf
Packet_write_to_buf(packet) ==
    Header_write_to(packet.header) \o put_u16(packet.assoc_id) \o put_u16(packet.pkt_id)
        \o <<packet.frag_total, packet.frag_id>> \o put_u16(packet.size)
        \o Address_write_to_buf(packet.address) \o packet.payload

\* a payload read that returns the bytes the stream still has
read_payload_short(stream, size) == read_available(stream, size)

\* the payload of a Packet: read_exact into a buffer of size bytes
read_payload(stream, size) == read_exact(stream, size)

\* Packet::read_from, after the header was read
Packet_read_from(header, stream) ==
    LET assoc_id == read_exact(stream, 2)
        pkt_id == read_exact(assoc_id.rest, 2)
        frag_total == read_exact(pkt_id.rest, 1)
        frag_id == read_exact(frag_total.rest, 1)
        size == read_exact(frag_id.rest, 2)
        address == Address_read_from(size.rest)
        payload == read_payload(address.rest, u16_of(size.value))
    IN IF ~assoc_id.ok THEN ReadErr
       ELSE IF ~pkt_id.ok THEN ReadErr
       ELSE IF ~frag_total.ok THEN ReadErr
       ELSE IF ~frag_id.ok THEN ReadErr
       ELSE IF ~size.ok THEN ReadErr
       ELSE IF ~address.ok THEN ReadErr
       ELSE IF ~payload.ok THEN ReadErr
       ELSE ReadOk([header |-> header, assoc_id |-> u16_of(assoc_id.value),
                    pkt_id |-> u16_of(pkt_id.value), frag_total |-> frag_total.value[1],
                    frag_id |-> frag_id.value[1], size |-> u16_of(size.value),
                    address |-> address.value, payload |-> payload.value],
                   payload.rest)

\* a whole Packet command read from a stream: Header::read_from, then
\* Packet::read_from
read_packet(stream) ==
    LET header == Header_read_from(stream)
    IN IF ~header.ok THEN ReadErr ELSE Packet_read_from(header.value, header.rest)

\* a reply that carries the address on every frame
frame_address_all(frag_id, address) == address

\* the address of frame frag_id of a reply
frame_address(frag_id, address) == IF 0 < frag_id THEN AddressNone ELSE address

\* usize::div_ceil
div_ceil(a, b) == (a + b - 1) \div b

\* Packet::get_packets_from: one Packet per chunk of MAX_PAYLOAD_PER_PACKET
\* bytes (no chunk for an empty payload)
get_packets_from(full_payload, assoc_id, pkt_id, address) ==
    LET total_len == Len(full_payload)
        frag_total == div_ceil(total_len, MAX_PAYLOAD_PER_PACKET) % 256
        chunks == div_ceil(total_len, MAX_PAYLOAD_PER_PACKET)
        chunk(k) ==
            SubSeq(full_payload, (k - 1) * MAX_PAYLOAD_PER_PACKET + 1,
                   IF k * MAX_PAYLOAD_PER_PACKET < total_len
                   THEN k * MAX_PAYLOAD_PER_PACKET ELSE total_len)
    IN [k \in 1..chunks |->
           Packet(assoc_id, pkt_id, frag_total, (k - 1) % 256,
                  frame_address(k - 1, address), chunk(k))]

\* the fragments lo..hi of packets handed to ReassemblyBuffer one after the
\* other (UdpSessionManager::receive_fragment on the map m): the map and
\* the payload returned by the last call
RECURSIVE reassemble(_, _, _, _)
reassemble(acc, packets, lo, hi) ==
    IF lo > hi THEN acc
    ELSE IF lo = hi
    THEN LET r == receive_fragment(acc.sessions, from_packet(packets[lo]), Client, None, 0)
         IN [sessions |-> r.sessions, ret |-> r.ret]
    ELSE LET left == reassemble(acc, packets, lo, (lo + hi) \div 2)
         IN IF is_some(left.ret) THEN left
            ELSE reassemble(left, packets, (lo + hi) \div 2 + 1, hi)

(***************************************************************************)
(* SpecCap: UdpSessionManager with max_sessions as it was configured at    *)
(* construction; fragments of several associations, Dissociate, the        *)
(* cleanup task and the clock.                                             *)
(***************************************************************************)
\* the state of the connection, the gate and the authentication while a
\* specification drives another part
InitRest ==
    /\ InitAuthVars
    /\ InitGateTasks
    /\ gate = Some(TRUE)
    /\ gate_log = <<[v |-> TRUE, t |-> 0]>>
    /\ arch = "CommandUniprocessor"
    /\ closed = FALSE
    /\ uni = [UniIdle EXCEPT !.pc = "off"]
    /\ bid = [pc |-> "idle", start |-> 0]
    /\ dat = [pc |-> "off", start |-> 0]
    /\ tasks = [i \in Tasks |-> IdleTask]
    /\ cmds = 0
    /\ tcp_connects = 0
    /\ udp_sends = 0
    /\ udp_sessions = << >>
    /\ timed_out = FALSE
    /\ ran_timed_out = FALSE
    /\ max_reassembly = None
    /\ overflow_checks = TRUE
    /\ done_pkts = {}
    /\ last_stored = 0

\* the variables of the other specifications
capOthers == <<codec, streams, relay, trojan, laterVars>>
codecOthers == <<cap, streams, relay, trojan, laterVars>>

restVars ==
    <<authVars, gateVars, gateTaskVars, connVars, tcp_connects, udp_sends, udp_sessions,
      ghostVars, max_reassembly, overflow_checks, done_pkts, last_stored>>

\* the associations of SpecCap
CapAssocs == 1..2

\* fragment frag_id of packet 7 of association a, announced with frag_total
CapFragment(a, frag_total, frag_id) ==
    [Fragment(7, frag_total, frag_id, FALSE) EXCEPT !.assoc_id = a]

CapPackets ==
    {CapFragment(a, 2, fi) : a \in CapAssocs, fi \in 0..1}
    \cup {CapFragment(a, BITMAP_BITS + 1, 0) : a \in CapAssocs}

InitCap ==
    /\ now = 0
    /\ InitRest
    /\ sessions = << >>
    /\ store = "UdpSessionManager"
    /\ last_op = NoOp
    /\ next_cleanup = CLEANUP_INTERVAL
    /\ cap \in {[max_sessions |-> m, blocked |-> 0] : m \in {None, Some(1), Some(2)}}
    /\ InitCodecVars /\ InitStreamVars /\ InitRelayVars /\ InitTrojanVars /\ InitLater

\* a call that needs the write lock of the shard of one key: it waits when a
\* blocked call holds that shard (same_shard), and every call that walks all
\* shards waits as soon as one call is blocked
\* a Packet handed to UdpSessionManager::receive_fragment
CapReceive(p, same_shard) ==
    /\ cap.blocked < MaxBlocked
    /\ LET r == receive_fragment_capped(sessions, from_packet(p), Client, cap.max_sessions,
                                        max_reassembly, now)
           waits == (cap.blocked > 0 /\ same_shard) \/ r.blocked
       IN /\ sessions' = IF waits THEN sessions ELSE r.sessions
          /\ last_op' = [kind |-> "packet", frag |-> p,
                         ret |-> IF waits THEN None ELSE r.ret, sent |-> None,
                         panicked |-> FALSE, early |-> FALSE]
          /\ cap' = [cap EXCEPT !.blocked = IF waits THEN @ + 1 ELSE @]
    /\ UNCHANGED <<now, restVars, store, next_cleanup, capOthers>>

\* a Dissociate handled by DissociateProcess::process
CapDissociate(a, same_shard) ==
    /\ cap.blocked < MaxBlocked
    /\ LET waits == cap.blocked > 0 /\ same_shard
       IN /\ sessions' = IF waits THEN sessions ELSE remove_session(sessions, Client, a)
          /\ cap' = [cap EXCEPT !.blocked = IF waits THEN @ + 1 ELSE @]
    /\ last_op' = [NoOp EXCEPT !.kind = "dissociate", !.frag.assoc_id = a]
    /\ UNCHANGED <<now, restVars, store, next_cleanup, capOthers>>

\* one round of the cleanup task; it walks every shard
CapCleanup ==
    /\ now >= next_cleanup
    /\ cap.blocked = 0
    /\ sessions' = cleanup_expired_sessions(sessions, SESSION_TIMEOUT, now)
    /\ next_cleanup' = now + CLEANUP_INTERVAL
    /\ last_op' = [NoOp EXCEPT !.kind = "cleanup"]
    /\ UNCHANGED <<now, restVars, store, cap, capOthers>>

\* one second passes
CapTick ==
    /\ now < MaxCapNow
    /\ now' = now + 1
    /\ UNCHANGED <<restVars, sessions, store, last_op, next_cleanup, cap, capOthers>>

NextCap ==
    \/ \E p \in CapPackets, same_shard \in BOOLEAN : CapReceive(p, same_shard)
    \/ \E a \in CapAssocs, same_shard \in BOOLEAN : CapDissociate(a, same_shard)
    \/ CapCleanup
    \/ CapTick

SpecCap == InitCap /\ [][NextCap]_vars

(***************************************************************************)
(* SpecCodec: Packet values written and read back, payloads cut into reply *)
(* fragments and reassembled, and the reply of one exchange sent to the    *)
(* client datagram by datagram.                                            *)
(***************************************************************************)
\* the addresses a Packet of the model carries, as Address::read_from builds
\* them: None, 10.0.0.1:53, an IPv6 address, "ab":443 and the empty domain
CodecAddresses ==
    {AddressNone,
     Address_read_from(<<ADDRESS_TYPE_IPV4, 10, 0, 0, 1, 0, 53>>).value,
     Address_read_from(<<ADDRESS_TYPE_IPV6>> \o [i \in 1..16 |-> 255 - i] \o <<255, 255>>).value,
     Address_read_from(<<ADDRESS_TYPE_DOMAIN, 2, 97, 98, 1, 187>>).value,
     Address_read_from(<<ADDRESS_TYPE_DOMAIN, 0, 0, 80>>).value}

\* the ids of the Packets of the model: assoc_id, pkt_id, frag_total, frag_id
CodecIds == {<<0, 0, 0, 0>>, <<258, 513, 2, 1>>, <<65535, 65535, 255, 255>>}

CodecPayloads == {<< >>, <<1>>, <<0, 255, 2>>}

CodecPackets ==
    {Packet(id[1], id[2], id[3], id[4], a, b) :
        id \in CodecIds, a \in CodecAddresses, b \in CodecPayloads}

\* the bytes that follow a Packet on its stream
CodecTails == {<< >>, <<VERSION_V5, COMMAND_TYPE_PACKET>>}

\* how many bytes the stream lacks at its end
MaxCut == 3

\* a payload of len bytes
Payload(len) == [i \in 1..len |-> (7 * i + i \div MAX_PAYLOAD_PER_PACKET) % 256]

\* the payload lengths cut into fragments, and those of the replies
FragmentLens == {0, 1, 1199, 1200, 1201, 2400, 2401, 65535}
ReplyLens == {0, 1, 1200, 1201, 2401}

\* the inputs of the calls: a Packet and the stream it is read from, a
\* payload to cut into fragments, or a request (its address resolved, or the
\* handler bails before any reply) whose reply has len bytes
CodecInputs ==
    {[op |-> "packet", packet |-> packet, cut |-> cut, tail |-> tail] :
        packet \in CodecPackets, cut \in 0..MaxCut, tail \in CodecTails}
    \cup {[op |-> "payload", len |-> len] : len \in FragmentLens}
    \cup {[op |-> "request", len |-> len, assoc_id |-> id[1], pkt_id |-> id[2],
           address |-> address] :
            len \in ReplyLens, id \in CodecIds,
            address \in CodecAddresses \ {AddressNone}}

InitCodec ==
    /\ now = 0
    /\ InitRest
    /\ InitCapVars /\ InitStreamVars /\ InitRelayVars /\ InitTrojanVars /\ InitLater
    /\ sessions = << >>
    /\ store = "none"
    /\ last_op = NoOp
    /\ next_cleanup = CLEANUP_INTERVAL
    /\ codec \in {c \in CodecInputs : c.op = "packet" => (c.cut > 0 => c.tail = << >>)}

codecRest == <<now, restVars, sessions, store, last_op, next_cleanup, codecOthers>>

\* write_to_buf, then Header::read_from and Packet::read_from on a stream
\* that holds the written bytes less the last cut ones, followed by tail
RoundTrip ==
    /\ codec.op = "packet"
    /\ LET written == Packet_write_to_buf(codec.packet)
           stream == SubSeq(written, 1, Len(written) - codec.cut) \o codec.tail
       IN codec' = [op |-> "roundtrip", packet |-> codec.packet, cut |-> codec.cut,
                    tail |-> codec.tail, result |-> read_packet(stream)]
    /\ UNCHANGED codecRest

\* get_packets_from on a payload of len bytes, and its fragments handed to
\* the reassembly in order
Fragmentize ==
    /\ codec.op = "payload"
    /\ LET packets == get_packets_from(Payload(codec.len), 1, 7, AddressNone)
           r == reassemble([sessions |-> << >>, ret |-> None], packets, 1, Len(packets))
       IN codec' = [op |-> "fragment", len |-> codec.len, count |-> Len(packets),
                    frag_totals |-> {packets[k].frag_total : k \in DOMAIN packets},
                    sizes |-> {packets[k].size : k \in DOMAIN packets},
                    assembled |-> r.ret]
    /\ UNCHANGED codecRest

\* send_and_recv returned len bytes for the request (assoc_id, pkt_id,
\* address): the handler is about to send the reply
ReplyStart ==
    /\ codec.op = "request"
    /\ codec' = [op |-> "reply", len |-> codec.len, assoc_id |-> codec.assoc_id,
                 pkt_id |-> codec.pkt_id, address |-> codec.address,
                 sent |-> << >>, failed |-> FALSE]
    /\ UNCHANGED codecRest

\* the frames of the reply being sent
ReplyFrames == get_packets_from(Payload(codec.len), codec.assoc_id, codec.pkt_id, codec.address)

\* one round of the send loop: the next frame is written and handed to
\* connection.send_datagram, which takes it (ok) or refuses it; the client
\* reads what was taken (the payload is kept as its length)
ReplySend(ok) ==
    /\ codec.op = "reply"
    /\ ~codec.failed
    /\ Len(codec.sent) < Len(ReplyFrames)
    /\ LET frame == ReplyFrames[Len(codec.sent) + 1]
           seen == read_packet(Packet_write_to_buf(frame)).value
       IN codec' = IF ok
                   THEN [codec EXCEPT !.sent = Append(@, [seen EXCEPT !.payload = Len(@)])]
                   ELSE [codec EXCEPT !.failed = TRUE]
    /\ UNCHANGED codecRest

\* the handler returns: every frame was sent, or send_datagram failed
ReplyReturn ==
    /\ codec.op = "reply"
    /\ codec.failed \/ Len(codec.sent) = Len(ReplyFrames)
    /\ codec' = [codec EXCEPT !.op = "replied"]
    /\ UNCHANGED codecRest

NextCodec ==
    \/ RoundTrip
    \/ Fragmentize
    \/ ReplyStart
    \/ \E ok \in BOOLEAN : ReplySend(ok)
    \/ ReplyReturn

SpecCodec == InitCodec /\ [][NextCodec]_vars

(***************************************************************************)
(* SpecStreams: one TUIC connection whose client opens unidirectional and  *)
(* bidirectional streams; a stream waits until the role's loop accepts it. *)
(***************************************************************************)
\* the streams the client opens
MaxStreams == 3

\* bytes Command::read_from refuses (a truncated or malformed command)
Malformed == Cmd("Malformed", "none", "none", 0, 0, 0, 0, AddrNone, NoBytes)

\* the Authenticate of user u1 with the token the exporter derives
ValidAuthenticate == Cmd("Authenticate", "u1", "k1", 0, 0, 0, 0, AddrNone, NoBytes)

\* a Packet that is whole in one fragment
WholePacket == Cmd("Packet", "none", "none", 1, 7, 1, 0, AddrTarget, <<1>>)

\* what the streams of the model carry: commands of the role's channel and
\* malformed bytes on unidirectional streams, a Connect, another command and
\* malformed bytes on bidirectional ones
StreamCommands(role) ==
    IF role = "uni" THEN {ValidAuthenticate, WholePacket, Malformed}
    ELSE ConnectCmds \cup HeartbeatCmds \cup {Malformed}

StreamRoles == {"uni", "bi"}

InitStreams ==
    /\ now = 0
    /\ InitAuthVars
    /\ InitGateVars
    /\ InitGateTasks
    /\ InitExt
    /\ \E a \in Archs : InitConnVars(a)

streamOthers == <<cap, codec, relay, trojan, laterVars>>

\* the client opens a stream of the role and writes c on it. Unidirectional
\* streams are read by process_uni only.
StreamOpen(role, c) ==
    /\ ~closed
    /\ streams.opened < MaxStreams
    /\ role = "uni" => arch = "TuicConnectionProcessor"
    /\ streams' = [streams EXCEPT ![role] = Append(@, [cmd |-> c]),
                                  !.opened = @ + 1]
    /\ UNCHANGED <<now, authVars, gateVars, gateTaskVars, connVars, ioVars, ghostVars,
                   streamOthers, reasmVars>>

\* process_uni: accept_uni returns the oldest waiting stream, Command::read_from
\* reads it, and the match on the command; a read error leaves the loop
StreamUniAccept ==
    /\ arch = "TuicConnectionProcessor"
    /\ uni.pc = "accept"
    /\ ~closed
    /\ streams.uni # << >>
    /\ LET c == Head(streams.uni).cmd
       IN /\ c.kind # "Malformed" => cmds < MaxCmds
          /\ streams' = [streams EXCEPT !.uni = Tail(@),
                            !.broken = IF c.kind = "Malformed" THEN @ \cup {"uni"} ELSE @]
          /\ cmds' = IF c.kind = "Malformed" THEN cmds ELSE cmds + 1
          /\ IF c.kind = "Authenticate"
             THEN \E export_ok \in BOOLEAN :
                    /\ DoAuthenticate(c.uuid, c.token, export_ok)
                    /\ uni' = [pc |-> "notify", start |-> now, cmd |-> c, n |-> cmds + 1,
                               v |-> verify(failed_attempts, c, export_ok, now).result = "Ok"]
             ELSE /\ UNCHANGED authVars
                  /\ uni' = IF c.kind = "Malformed" THEN [UniIdle EXCEPT !.pc = "exit"]
                            ELSE IF c.kind \in {"Packet", "Dissociate"}
                            THEN [pc |-> "wait", start |-> now, cmd |-> c, n |-> cmds + 1,
                                  v |-> FALSE]
                            ELSE uni
    /\ UNCHANGED <<now, gateVars, gateTaskVars, arch, closed, bid, dat, tasks, ioVars,
                   ghostVars, streamOthers, reasmVars>>

\* accept_bi returns the oldest waiting stream and Command::read_from reads
\* it. process_bidirectional spawns the reading: a read error ends that task,
\* a Connect spawns the relay, any other command closes the connection.
\* ConnectProcessor::process reads in its loop and bails unless the command
\* is a Connect.
StreamBidAccept ==
    /\ bid.pc = "accept"
    /\ ~closed
    /\ streams.bi # << >>
    /\ LET c == Head(streams.bi).cmd
       IN /\ c.kind = "Connect" => cmds < MaxCmds
          /\ streams' = [streams EXCEPT !.bi = Tail(@),
                            !.broken = IF c.kind = "Malformed" THEN @ \cup {"bi"} ELSE @]
          /\ IF c.kind = "Connect"
             THEN /\ cmds' = cmds + 1
                  /\ tasks' = [tasks EXCEPT ![cmds + 1] = Spawned("Connect", "run", c)]
                  /\ UNCHANGED <<closed, bid>>
             ELSE /\ closed' = (arch = "TuicConnectionProcessor" /\ c.kind # "Malformed")
                  /\ bid' = IF arch = "TuicConnectionProcessor" THEN bid
                            ELSE [bid EXCEPT !.pc = "bail"]
                  /\ UNCHANGED <<cmds, tasks>>
    /\ UNCHANGED <<now, authVars, gateVars, gateTaskVars, arch, uni, dat, ioVars, ghostVars,
                   streamOthers, reasmVars>>

NextStreams ==
    \/ \E role \in StreamRoles : \E c \in StreamCommands(role) : StreamOpen(role, c)
    \/ StreamUniAccept
    \/ UniNotifyCheck
    \/ UniNotifySend
    \/ UniWait
    \/ BidGate
    \/ StreamBidAccept
    \/ Dispatch(ValidAuthenticate)
    \/ DispatchNone
    \/ \E i \in Tasks : AuthenticateRun(i)
    \/ \E i \in Tasks : TaskNotifyCheck(i)
    \/ \E i \in Tasks : TaskNotifySend(i)
    \/ \E i \in Tasks : HandlerGate(i)
    \/ \E i \in Tasks : PacketRun(i)
    \/ \E i \in Tasks : ConnectRun(i)
    \/ Tick

SpecStreams == InitStreams /\ [][NextStreams]_vars

(***************************************************************************)
(* SpecRelay: one TCP relay between the client and the target, as the TUIC *)
(* Connect handler and the Trojan relay_tcp run it.                        *)
(***************************************************************************)
\* the bytes a peer sends at most
MaxRelayBytes == 2

\* the two relays of the repository
Relays == {"ConnectProcessor", "relay_tcp"}

\* the peers: the direction named p copies what p sends to the other peer
Peers == {"client", "target"}
other(p) == IF p = "client" THEN "target" ELSE "client"

InitRelay ==
    /\ now = 0
    /\ InitRest
    /\ InitCapVars /\ InitCodecVars /\ InitStreamVars /\ InitTrojanVars /\ InitLater
    /\ sessions = << >>
    /\ store = "none"
    /\ last_op = NoOp
    /\ next_cleanup = CLEANUP_INTERVAL
    /\ \E r \in Relays :
         relay = [pc |-> "run", impl |-> r,
                  sent |-> [p \in Peers |-> 0],      \* bytes p has written
                  eof |-> [p \in Peers |-> FALSE],   \* p has closed its sending side
                  copied |-> [p \in Peers |-> 0],    \* bytes of p written to the other peer
                  dir |-> [p \in Peers |-> "copy"],  \* the copy loop of direction p
                  shut |-> [p \in Peers |-> FALSE],  \* the write side towards p was shut down
                  cancelled |-> FALSE]               \* the CancellationToken of relay_tcp

relayRest ==
    <<now, restVars, sessions, store, last_op, next_cleanup, cap, codec, streams, trojan,
      laterVars>>

\* a peer writes one byte
PeerSend(p) ==
    /\ relay.pc = "run"
    /\ ~relay.eof[p]
    /\ relay.sent[p] < MaxRelayBytes
    /\ relay' = [relay EXCEPT !.sent[p] = @ + 1]
    /\ UNCHANGED relayRest

\* a peer closes its sending side
PeerClose(p) ==
    /\ relay.pc = "run"
    /\ ~relay.eof[p]
    /\ relay' = [relay EXCEPT !.eof[p] = TRUE]
    /\ UNCHANGED relayRest

\* copy_with_buf / copy_with_cancel, one round with data: read returns n
\* bytes, write_all hands them to the other peer
Copy(p, n) ==
    /\ relay.pc = "run"
    /\ relay.dir[p] = "copy"
    /\ n <= relay.sent[p] - relay.copied[p]
    /\ relay' = [relay EXCEPT !.copied[p] = @ + n]
    /\ UNCHANGED relayRest

\* the copy loop of direction p reads end of stream.
\* ConnectProcessor::process: the future shuts its writer down and returns;
\* select! takes its branch, which finishes the write side of the other
\* direction, the other future is dropped and both TCP halves are dropped.
\* relay_tcp: copy_with_cancel returns and its task ends.
CopyEof(p) ==
    /\ relay.pc = "run"
    /\ relay.dir[p] = "copy"
    /\ relay.eof[p]
    /\ relay.copied[p] = relay.sent[p]
    /\ relay' = IF relay.impl = "ConnectProcessor"
                THEN [relay EXCEPT !.pc = "closed",
                                   !.dir = [q \in Peers |-> IF q = p THEN "eof" ELSE "dropped"],
                                   !.shut = [q \in Peers |-> TRUE]]
                ELSE [relay EXCEPT !.dir[p] = "eof",
                                   !.pc = IF relay.dir[other(p)] = "copy" THEN "run"
                                          ELSE "closed"]
    /\ UNCHANGED relayRest

\* relay_tcp: the select! on the two tasks sees one of them finished and
\* cancels the token
RelayCancel ==
    /\ relay.impl = "relay_tcp"
    /\ ~relay.cancelled
    /\ \E p \in Peers : relay.dir[p] # "copy"
    /\ relay' = [relay EXCEPT !.cancelled = TRUE]
    /\ UNCHANGED relayRest

\* copy_with_cancel: the select! of the loop takes the cancelled branch; the
\* task returns and drops its halves
CopyCancelled(p) ==
    /\ relay.impl = "relay_tcp"
    /\ relay.dir[p] = "copy"
    /\ relay.cancelled
    /\ relay' = [relay EXCEPT !.dir[p] = "cancelled",
                              !.pc = IF relay.dir[other(p)] = "copy" THEN "run" ELSE "closed"]
    /\ UNCHANGED relayRest

NextRelay ==
    \/ \E p \in Peers : PeerSend(p)
    \/ \E p \in Peers : PeerClose(p)
    \/ \E p \in Peers, n \in 1..MaxRelayBytes : Copy(p, n)
    \/ \E p \in Peers : CopyEof(p)
    \/ RelayCancel
    \/ \E p \in Peers : CopyCancelled(p)

SpecRelay == InitRelay /\ [][NextRelay]_vars

(***************************************************************************)
(* SpecTrojan: one Trojan connection after the TLS handshake: the request  *)
(* is read from the bytes the client sent, then handled or rejected.       *)
(***************************************************************************)
PASSWORD_HASH_LENGTH == 56
CRLF == <<13, 10>>
TROJAN_CONNECT == 1
TROJAN_UDP_ASSOCIATE == 3
TROJAN_IPV4 == 1
TROJAN_DOMAIN_NAME == 3
TROJAN_IPV6 == 4

\* the hex SHA-224 of the one configured password, another hash and 56 bytes
\* that are no UTF-8
ValidHash == [i \in 1..PASSWORD_HASH_LENGTH |-> 97]
UnknownHash == [i \in 1..PASSWORD_HASH_LENGTH |-> 98]
NonUtf8Hash == [i \in 1..PASSWORD_HASH_LENGTH |-> 255]

\* TrojanAuthenticationManager.valid_hashes
valid_hashes == {ValidHash}

\* a comparison that accepts every hash
verify_password_hash_any(received_hash) == TRUE

\* TrojanAuthenticationManager::verify_password_hash: constant_time_eq with
\* one of the valid hashes (equal length and equal bytes)
verify_password_hash(received_hash) == received_hash \in valid_hashes

\* CommandType::from_u8
CommandType_from_u8(value) ==
    IF value \in {TROJAN_CONNECT, TROJAN_UDP_ASSOCIATE} THEN [ok |-> TRUE, value |-> value]
    ELSE ReadErr

\* the host of a Trojan address: 4 bytes, a length and that many bytes of
\* UTF-8, or 16 bytes
trojan_host_read_from(addr_type, stream) ==
    IF addr_type = TROJAN_IPV4 THEN read_exact(stream, 4)
    ELSE IF addr_type = TROJAN_IPV6 THEN read_exact(stream, 16)
    ELSE LET len == read_exact(stream, 1)
         IN IF ~len.ok THEN ReadErr
            ELSE LET buf == read_exact(len.rest, len.value[1])
                 IN IF ~buf.ok THEN ReadErr
                    ELSE IF ~from_utf8_ok(buf.value) THEN ReadErr
                    ELSE buf

\* protocol::trojan::address::Address::read_from
Trojan_Address_read_from(stream) ==
    LET addr_type == read_exact(stream, 1)
    IN IF ~addr_type.ok THEN ReadErr
       ELSE IF addr_type.value[1] \notin {TROJAN_IPV4, TROJAN_DOMAIN_NAME, TROJAN_IPV6}
       THEN ReadErr
       ELSE LET host == trojan_host_read_from(addr_type.value[1], addr_type.rest)
            IN IF ~host.ok THEN ReadErr
               ELSE LET port == read_exact(host.rest, 2)
                    IN IF ~port.ok THEN ReadErr
                       ELSE ReadOk([addr_type |-> addr_type.value[1], host |-> host.value,
                                    port |-> u16_of(port.value)], port.rest)

\* the three results of TrojanRequest::read_from
RequestNone == [result |-> "None"]
RequestErr == [result |-> "Err"]
RequestSome(command, address) ==
    [result |-> "Some", command |-> command, address |-> address]

\* TrojanRequest::read_from: a read that meets the end of the stream outside
\* the address gives Ok(None); so do a wrong CRLF and an unknown hash
TrojanRequest_read_from(stream) ==
    LET hash_buf == read_exact(stream, PASSWORD_HASH_LENGTH)
        crlf == read_exact(hash_buf.rest, 2)
        cmd_byte == read_exact(crlf.rest, 1)
        command == CommandType_from_u8(cmd_byte.value[1])
        address == Trojan_Address_read_from(cmd_byte.rest)
        end_crlf == read_exact(address.rest, 2)
    IN IF ~hash_buf.ok THEN RequestNone
       ELSE IF ~from_utf8_ok(hash_buf.value) THEN RequestErr
       ELSE IF ~crlf.ok THEN RequestNone
       ELSE IF crlf.value # CRLF THEN RequestNone
       ELSE IF ~verify_password_hash(hash_buf.value) THEN RequestNone
       ELSE IF ~cmd_byte.ok THEN RequestNone
       ELSE IF ~command.ok THEN RequestErr
       ELSE IF ~address.ok THEN RequestErr
       ELSE IF ~end_crlf.ok THEN RequestNone
       ELSE IF end_crlf.value # CRLF THEN RequestNone
       ELSE RequestSome(command.value, address.value)

\* the parts of the requests of the model
TrojanHashes == {ValidHash, UnknownHash, NonUtf8Hash}
TrojanCrlfs == {CRLF, <<13, 13>>}
TrojanCommands == {TROJAN_CONNECT, TROJAN_UDP_ASSOCIATE, 2}
TrojanAddresses ==
    {<<TROJAN_IPV4, 10, 0, 0, 1, 0, 80>>,
     <<TROJAN_DOMAIN_NAME, 1, 97, 1, 187>>,
     <<TROJAN_IPV6>> \o [i \in 1..16 |-> i] \o <<0, 53>>,
     <<5, 0, 0, 0, 0, 0, 0>>}

\* the bytes the client lacks at the end of its request
MaxTrojanCut == 1

TrojanInputs ==
    {[hash |-> h, crlf |-> c, cmd |-> k, address |-> a, end_crlf |-> e, cut |-> n] :
        h \in TrojanHashes, c \in TrojanCrlfs, k \in TrojanCommands, a \in TrojanAddresses,
        e \in TrojanCrlfs, n \in 0..MaxTrojanCut}

\* the bytes of a request on the TLS stream
TrojanStream(in) ==
    LET whole == in.hash \o in.crlf \o <<in.cmd>> \o in.address \o in.end_crlf
    IN SubSeq(whole, 1, Len(whole) - in.cut)

\* the client of process_connection_tls is a TlsStream (it owns the TCP
\* stream); the client of handle_fallback is a plain TcpStream
TrojanTransports == {"TlsStream", "TcpStream"}

\* the bytes of the client handed to handle_fallback
PlainInput ==
    [hash |-> UnknownHash, crlf |-> CRLF, cmd |-> TROJAN_CONNECT,
     address |-> <<TROJAN_IPV4, 10, 0, 0, 1, 0, 80>>, end_crlf |-> CRLF, cut |-> 0]

\* what handle_fallback writes when the fallback server cannot be reached
FALLBACK_RESPONSE == "HTTP/1.1 200 OK\r\nContent-Type: text/html\r\nContent-Length: 0\r\n\r\n"

InitTrojan ==
    /\ now = 0
    /\ InitRest
    /\ InitCapVars /\ InitCodecVars /\ InitStreamVars /\ InitRelayVars /\ InitLater
    /\ sessions = << >>
    /\ store = "none"
    /\ last_op = NoOp
    /\ next_cleanup = CLEANUP_INTERVAL
    /\ \E in \in TrojanInputs, t \in TrojanTransports :
         /\ t = "TcpStream" => in = PlainInput
         /\ trojan = [pc |-> IF t = "TlsStream" THEN "accepted" ELSE "plain",
                      transport |-> t,        \* what the server holds of the client
                      in |-> in, request |-> RequestNone,
                      written |-> << >>,      \* what the server wrote of its own, and where
                      tcp_target |-> FALSE,   \* a TCP connection to the request's address
                      udp_open |-> FALSE,     \* the UDP sockets of an association
                      fallback |-> FALSE]     \* the bytes are relayed to the fallback server

trojanRest ==
    <<now, restVars, sessions, store, last_op, next_cleanup, cap, codec, streams, relay,
      laterVars>>

\* process_connection_tls: TrojanRequest::read_from and the match on its
\* result
TrojanRead ==
    /\ trojan.pc = "accepted"
    /\ LET r == TrojanRequest_read_from(TrojanStream(trojan.in))
       IN trojan' = [trojan EXCEPT !.request = r,
                        !.pc = IF r.result = "Some" THEN "request" ELSE "rejected"]
    /\ UNCHANGED trojanRest

\* the match on trojan_request.command: handle_connect_tls connects to the
\* address of the request (the relay runs when that succeeds),
\* handle_udp_associate_tls binds the UDP sockets
TrojanHandle(connect_ok) ==
    /\ trojan.pc = "request"
    /\ trojan' = IF trojan.request.command = TROJAN_CONNECT
                 THEN [trojan EXCEPT !.pc = IF connect_ok THEN "relay" ELSE "closed",
                                     !.tcp_target = connect_ok]
                 ELSE [trojan EXCEPT !.pc = "udp", !.udp_open = TRUE]
    /\ UNCHANGED trojanRest

\* process_connection_tls returns on Ok(None) and Err: the stream is dropped
TrojanDrop ==
    /\ trojan.pc = "rejected"
    /\ trojan' = [trojan EXCEPT !.pc = "closed"]
    /\ UNCHANGED trojanRest

\* FallbackHandler::handle_fallback(client_stream: TcpStream, fallback_addr):
\* the bytes are relayed to the fallback server, or, when the connect to it
\* fails, the fixed response is written to the TCP stream
TrojanFallback(up) ==
    /\ trojan.pc = "plain"
    /\ trojan' = IF up THEN [trojan EXCEPT !.pc = "closed", !.fallback = TRUE]
                 ELSE [trojan EXCEPT !.pc = "closed",
                          !.written = <<[on |-> "TcpStream", bytes |-> FALLBACK_RESPONSE]>>]
    /\ UNCHANGED trojanRest

NextTrojan ==
    \/ TrojanRead
    \/ \E connect_ok \in BOOLEAN : TrojanHandle(connect_ok)
    \/ TrojanDrop
    \/ \E up \in BOOLEAN : TrojanFallback(up)

SpecTrojan == InitTrojan /\ [][NextTrojan]_vars

(***************************************************************************)
(* The later specifications share the start of the other variables.        *)
(***************************************************************************)
InitBase ==
    /\ now = 0
    /\ InitRest
    /\ InitCapVars /\ InitCodecVars /\ InitStreamVars /\ InitRelayVars /\ InitTrojanVars
    /\ sessions = << >>
    /\ store = "none"
    /\ last_op = NoOp
    /\ next_cleanup = CLEANUP_INTERVAL

baseRest ==
    <<now, restVars, sessions, store, last_op, next_cleanup, cap, codec, streams, relay,
      trojan>>

(***************************************************************************)
(* SpecAddr: one call of an address function: a TUIC address decoded from  *)
(* a stream, or the upstream target of a TUIC command or of a Trojan       *)
(* request or UDP frame computed from its address, the answer of the       *)
(* system resolver and the addresses of the host's interfaces.             *)
(***************************************************************************)

\* std::net::SocketAddr; an IP address is its 4 or 16 octets
SocketAddr(ip, port) == [ip |-> ip, port |-> port]
Ipv4Addr_LOCALHOST == <<127, 0, 0, 1>>
Ipv6Addr_LOCALHOST == <<0, 0, 0, 0, 0, 0, 0, 0, 0, 0, 0, 0, 0, 0, 0, 1>>
is_ipv4(ip) == Len(ip) = 4

\* the IPv4-mapped IPv6 address of an IPv4 address (v6_octets)
mapped(v4) == <<0, 0, 0, 0, 0, 0, 0, 0, 0, 0, 255, 255>> \o v4

\* LOCAL_IPS: the addresses get_if_addrs returned and the two LOCALHOSTs
LOCAL_IPS(if_addrs) == if_addrs \cup {Ipv4Addr_LOCALHOST, Ipv6Addr_LOCALHOST}

\* is_local_addr of protocol/tuic/address.rs, on an Option<SocketAddr>
is_local_addr(addr, if_addrs) ==
    /\ is_some(addr)
    /\ addr[1].ip \in LOCAL_IPS(if_addrs)

\* Address::resolve: the first address lookup_host returns
resolve(lookup) == IF lookup = << >> THEN None ELSE Some(Head(lookup))

\* the replacement made for an address is_local_addr accepts
to_localhost(addr) ==
    IF is_ipv4(addr.ip) THEN SocketAddr(Ipv4Addr_LOCALHOST, addr.port)
    ELSE SocketAddr(Ipv6Addr_LOCALHOST, addr.port)


\* Address::to_socket_address (TUIC) with the answer lookup of the resolver
Address_to_socket_address(address, lookup, if_addrs) ==
    LET socket_addr ==
            IF address.kind = "SocketAddress"
            THEN Some(SocketAddr(address.ip, address.port))
            ELSE IF address.kind = "DomainAddress" THEN resolve(lookup)
            ELSE None
    IN IF is_local_addr(socket_addr, if_addrs) THEN Some(to_localhost(socket_addr[1]))
       ELSE socket_addr

\* str::parse of the host of a Trojan address: the octets when the text is
\* an address of the family
parse_ip(host, n) == IF Len(host) = n THEN ReadOk(host, << >>) ELSE ReadErr

\* Address::to_socket_addrs (Trojan)
Trojan_to_socket_addrs(address, lookup) ==
    IF address.addr_type \in {TROJAN_IPV4, TROJAN_IPV6}
    THEN LET ip == parse_ip(address.host, IF address.addr_type = TROJAN_IPV4 THEN 4 ELSE 16)
         IN IF ~ip.ok THEN ReadErr
            ELSE ReadOk(<<SocketAddr(ip.value, address.port)>>, << >>)
    ELSE IF lookup = << >> THEN ReadErr
    ELSE ReadOk(lookup, << >>)

\* the addresses of the host's interfaces, and the IP addresses of the calls
HostInterfaces == {<<192, 168, 1, 5>>, <<254, 128, 0, 0, 0, 0, 0, 0, 0, 0, 0, 0, 0, 0, 0, 1>>}
OtherLoopback == <<127, 0, 0, 2>>
Remote4 == <<93, 184, 216, 34>>
Remote6 == <<32, 1, 13, 184, 0, 0, 0, 0, 0, 0, 0, 0, 0, 0, 0, 1>>
AddrIps ==
    HostInterfaces
    \cup {Ipv4Addr_LOCALHOST, Ipv6Addr_LOCALHOST, OtherLoopback, Remote4, Remote6,
          mapped(Ipv4Addr_LOCALHOST), mapped(<<192, 168, 1, 5>>)}
AddrPorts == {53, 443}

\* the answers of lookup_host
Lookups(port) ==
    {<< >>, <<SocketAddr(Remote4, port), SocketAddr(<<192, 168, 1, 5>>, port)>>}
    \cup {<<SocketAddr(ip, port)>> : ip \in AddrIps}

\* the name of the domain addresses: "ab"
AddrDomain == <<97, 98>>

TuicTargets ==
    {[address |-> SocketAddress(ip, port,
                                <<IF is_ipv4(ip) THEN ADDRESS_TYPE_IPV4 ELSE ADDRESS_TYPE_IPV6>>
                                    \o ip \o put_u16(port)),
      lookup |-> << >>] : ip \in AddrIps, port \in AddrPorts}
    \cup UNION {{[address |-> DomainAddress(AddrDomain, port,
                                            <<ADDRESS_TYPE_DOMAIN, 2>> \o AddrDomain
                                                \o put_u16(port)),
                  lookup |-> l] : l \in Lookups(port)} : port \in AddrPorts}
    \cup {[address |-> AddressNone, lookup |-> << >>]}

TrojanTargets ==
    {[address |-> [addr_type |-> IF is_ipv4(ip) THEN TROJAN_IPV4 ELSE TROJAN_IPV6,
                   host |-> ip, port |-> port],
      lookup |-> << >>] : ip \in AddrIps, port \in AddrPorts}
    \cup {[address |-> [addr_type |-> TROJAN_IPV4, host |-> AddrDomain, port |-> 53],
           lookup |-> << >>]}
    \cup UNION {{[address |-> [addr_type |-> TROJAN_DOMAIN_NAME, host |-> AddrDomain,
                               port |-> port],
                  lookup |-> l] : l \in Lookups(port)} : port \in AddrPorts}

\* the encoded Domain addresses handed to Address::read_from: a name of len
\* bytes, the last cut bytes of the encoding missing
DomainLens == {0, 1, 255}
MaxAddrCut == 1
DomainStream(len, cut) ==
    LET bytes == <<ADDRESS_TYPE_DOMAIN, len>> \o [i \in 1..len |-> 97] \o put_u16(443)
    IN SubSeq(bytes, 1, Len(bytes) - cut)

InitAddr ==
    /\ InitBase
    /\ InitListenerVars /\ InitFragRaceVars /\ InitAuthRaceVars /\ InitSweepVars
    /\ InitUdpAssocVars
    /\ \/ \E t \in TuicTargets, c \in {"Connect", "Packet"}, i \in SUBSET HostInterfaces :
            addr_call = [pc |-> "input", op |-> "tuic", command |-> c, address |-> t.address,
                         lookup |-> t.lookup, if_addrs |-> i]
       \/ \E t \in TrojanTargets, c \in {"Connect", "UdpFrame"},
             i \in SUBSET HostInterfaces :
            addr_call = [pc |-> "input", op |-> "trojan", command |-> c,
                         address |-> t.address, lookup |-> t.lookup, if_addrs |-> i]
       \/ \E len \in DomainLens, cut \in 0..MaxAddrCut :
            addr_call = [pc |-> "input", op |-> "read_from",
                         stream |-> DomainStream(len, cut)]

addrRest == <<baseRest, listener, frag_race, auth_race, sweep, udp_assoc>>

\* connect.rs and packet.rs: the target of a TUIC Connect or Packet
TuicResolve ==
    /\ addr_call.pc = "input"
    /\ addr_call.op = "tuic"
    /\ addr_call' = [pc |-> "done", op |-> "tuic", command |-> addr_call.command,
                     address |-> addr_call.address, lookup |-> addr_call.lookup,
                     if_addrs |-> addr_call.if_addrs,
                     target |-> Address_to_socket_address(addr_call.address,
                                                          addr_call.lookup,
                                                          addr_call.if_addrs)]
    /\ UNCHANGED addrRest

\* handle_connect_tls and the frame loop of handle_udp_associate_tls: the
\* target of a Trojan Connect or UDP frame
TrojanResolve ==
    /\ addr_call.pc = "input"
    /\ addr_call.op = "trojan"
    /\ addr_call' = [pc |-> "done", op |-> "trojan", command |-> addr_call.command,
                     address |-> addr_call.address, lookup |-> addr_call.lookup,
                     if_addrs |-> addr_call.if_addrs,
                     target |-> Trojan_to_socket_addrs(addr_call.address, addr_call.lookup)]
    /\ UNCHANGED addrRest

\* Address::read_from on the bytes of a Domain address
AddrDecode ==
    /\ addr_call.pc = "input"
    /\ addr_call.op = "read_from"
    /\ addr_call' = [pc |-> "done", op |-> "read_from", stream |-> addr_call.stream,
                     result |-> Address_read_from(addr_call.stream)]
    /\ UNCHANGED addrRest

NextAddr == TuicResolve \/ TrojanResolve \/ AddrDecode

SpecAddr == InitAddr /\ [][NextAddr]_vars

(***************************************************************************)
(* SpecSession: the tasks of PacketProcessor::process that deliver the     *)
(* fragments of fragmented packets of one association to its UdpSession at *)
(* the same time.  A task takes the address lock, the packet lock (accept) *)
(* and the packet lock again (take_fragmented_packet) one after the other, *)
(* and the other tasks run in between.                                     *)
(***************************************************************************)

\* the destination of packet 8: another one than AddrTarget, that of packet 7
AddrOther == "other"
DestOf(pkt_id) == IF pkt_id = 7 THEN AddrTarget ELSE AddrOther

\* fragment frag_id of packet pkt_id with its destination on fragment 0
SessionFragment(pkt_id, frag_total, frag_id) ==
    Cmd("Packet", "none", "none", 1, pkt_id, frag_total, frag_id,
        IF frag_id = 0 THEN DestOf(pkt_id) ELSE AddrNone, <<FragByte(pkt_id, frag_id)>>)

\* the fragments the tasks deliver, one each: packet 7 in two fragments with
\* one of them sent twice, packet 7 in three fragments, and packets 7 and 8
\* in two fragments each
MaxRaceTasks == 4
Deliveries ==
    {[name |-> "duplicate",
      frags |-> <<SessionFragment(7, 2, 0), SessionFragment(7, 2, 1),
                  SessionFragment(7, 2, d)>>] : d \in 0..1}
    \cup {[name |-> "same_packet",
           frags |-> <<SessionFragment(7, 3, 0), SessionFragment(7, 3, 1),
                       SessionFragment(7, 3, 2)>>]}
    \cup {[name |-> "two_packets",
           frags |-> <<SessionFragment(7, 2, 0), SessionFragment(7, 2, 1),
                       SessionFragment(8, 2, 0), SessionFragment(8, 2, 1)>>]}

InitSession ==
    /\ InitBase
    /\ InitAddrVars /\ InitListenerVars /\ InitAuthRaceVars /\ InitSweepVars
    /\ InitUdpAssocVars
    /\ \E d \in Deliveries :
         /\ Len(d.frags) <= MaxRaceTasks
         /\ frag_race = [pc |-> "run", name |-> d.name,
                         session |-> UdpSession_new,
                         tasks |-> [t \in DOMAIN d.frags |->
                                      [pc |-> "set_address", frag |-> d.frags[t],
                                       completed |-> None,   \* what accept returned
                                       payload |-> None,     \* what take returned
                                       address |-> AddrNone]],
                         sent |-> << >>]    \* the payloads sent upstream, in order

sessionRest == <<baseRest, addr_call, listener, auth_race, sweep, udp_assoc>>

\* accept, first part: the address of the fragment is stored under the
\* address lock
SessionSetAddress(t) ==
    /\ frag_race.pc = "run"
    /\ t \in DOMAIN frag_race.tasks
    /\ frag_race.tasks[t].pc = "set_address"
    /\ frag_race' = [frag_race EXCEPT
                       !.session.address = IF frag_race.tasks[t].frag.address # AddrNone
                                           THEN frag_race.tasks[t].frag.address ELSE @,
                       !.tasks[t].pc = "accept"]
    /\ UNCHANGED sessionRest

\* accept, second part: the fragment is stored under the packet lock
SessionAccept(t) ==
    /\ frag_race.pc = "run"
    /\ t \in DOMAIN frag_race.tasks
    /\ frag_race.tasks[t].pc = "accept"
    /\ LET r == accept(frag_race.session,
                       [frag_race.tasks[t].frag EXCEPT !.address = AddrNone],
                       overflow_checks)
       IN frag_race' = [frag_race EXCEPT
                          !.session = r.session,
                          !.tasks[t].completed = r.completed,
                          !.tasks[t].pc = IF is_some(r.completed) THEN "take" ELSE "done"]
    /\ UNCHANGED sessionRest

\* take_fragmented_packet of the packet accept reported as complete
SessionTake(t) ==
    /\ frag_race.pc = "run"
    /\ t \in DOMAIN frag_race.tasks
    /\ frag_race.tasks[t].pc = "take"
    /\ LET r == take_fragmented_packet(frag_race.session, frag_race.tasks[t].completed[1])
       IN frag_race' = [frag_race EXCEPT
                          !.session = r.session,
                          !.tasks[t].payload = r.bytes,
                          !.tasks[t].pc = IF is_some(r.bytes) THEN "get_address"
                                          ELSE "done"]
    /\ UNCHANGED sessionRest

\* get_address: the address the session remembers now
SessionGetAddress(t) ==
    /\ frag_race.pc = "run"
    /\ t \in DOMAIN frag_race.tasks
    /\ frag_race.tasks[t].pc = "get_address"
    /\ frag_race' = [frag_race EXCEPT
                       !.tasks[t].address = frag_race.session.address,
                       !.tasks[t].pc = IF frag_race.session.address = AddrNone
                                       THEN "done" ELSE "send"]
    /\ UNCHANGED sessionRest

\* to_socket_address and send_and_recv of the assembled payload
SessionSend(t, lookup_ok) ==
    /\ frag_race.pc = "run"
    /\ t \in DOMAIN frag_race.tasks
    /\ frag_race.tasks[t].pc = "send"
    /\ frag_race' = [frag_race EXCEPT
                       !.sent = IF is_some(to_socket_address(frag_race.tasks[t].address,
                                                             lookup_ok))
                                THEN Append(@, [pkt_id |-> frag_race.tasks[t].completed[1],
                                                payload |-> frag_race.tasks[t].payload[1],
                                                dest |-> frag_race.tasks[t].address])
                                ELSE @,
                       !.tasks[t].pc = "done"]
    /\ UNCHANGED sessionRest

NextSession ==
    \/ \E t \in 1..MaxRaceTasks : SessionSetAddress(t)
    \/ \E t \in 1..MaxRaceTasks : SessionAccept(t)
    \/ \E t \in 1..MaxRaceTasks : SessionTake(t)
    \/ \E t \in 1..MaxRaceTasks : SessionGetAddress(t)
    \/ \E t \in 1..MaxRaceTasks, lookup_ok \in BOOLEAN : SessionSend(t, lookup_ok)

SpecSession == InitSession /\ [][NextSession]_vars

(***************************************************************************)
(* SpecSweep: the cleanup task of UdpSessionManager running beside the     *)
(* tasks that call receive_fragment.  cleanup_expired_sessions first       *)
(* collects the keys of the expired buffers and then removes the collected *)
(* keys one by one; the map is locked per call, not for the whole pass, so *)
(* receive_fragment runs in between.                                       *)
(***************************************************************************)
MaxSweepNow == 3

\* the fragments handed to receive_fragment: packet 7 of association 1 in
\* three fragments and in two, and fragment 0 of packet 7 of association 2
SweepPackets ==
    {CapFragment(1, 3, fi) : fi \in 0..2}
    \cup {CapFragment(1, 2, fi) : fi \in 0..1}
    \cup {CapFragment(2, 2, 0)}

NoRemoval == [key |-> None, last_update |-> 0, at |-> 0]

InitSweep ==
    /\ InitBase
    /\ InitAddrVars /\ InitListenerVars /\ InitFragRaceVars /\ InitAuthRaceVars
    /\ InitUdpAssocVars
    /\ sweep = [pc |-> "sleep",
                expired_keys |-> {},     \* the keys collected and not yet removed
                removal |-> NoRemoval]   \* the last buffer the pass removed

sweepRest ==
    <<restVars, store, last_op, cap, codec, streams, relay, trojan, addr_call, listener,
      frag_race, auth_race, udp_assoc>>

\* the first loop of cleanup_expired_sessions, when the sleep of the cleanup
\* task is over
SweepCollect ==
    /\ sweep.pc = "sleep"
    /\ now >= next_cleanup
    /\ sweep' = [sweep EXCEPT
                   !.pc = "remove",
                   !.expired_keys = {k \in DOMAIN sessions :
                                        is_expired(sessions[k], SESSION_TIMEOUT, now)}]
    /\ UNCHANGED <<now, sessions, next_cleanup, sweepRest>>

\* one round of the second loop: self.sessions.remove(&key)
SweepRemove(key) ==
    /\ sweep.pc = "remove"
    /\ key \in sweep.expired_keys
    /\ sessions' = map_remove(sessions, key)
    /\ sweep' = [sweep EXCEPT
                   !.expired_keys = @ \ {key},
                   !.removal = IF key \in DOMAIN sessions
                               THEN [key |-> Some(key),
                                     last_update |-> sessions[key].last_update,
                                     at |-> now]
                               ELSE @]
    /\ UNCHANGED <<now, next_cleanup, sweepRest>>

\* the pass returns and the task sleeps for cleanup_interval
SweepReturn ==
    /\ sweep.pc = "remove"
    /\ sweep.expired_keys = {}
    /\ sweep' = [sweep EXCEPT !.pc = "sleep"]
    /\ next_cleanup' = now + CLEANUP_INTERVAL
    /\ UNCHANGED <<now, sessions, sweepRest>>

\* receive_fragment called by another task
SweepReceive(p) ==
    /\ sessions' = receive_fragment(sessions, from_packet(p), Client, max_reassembly,
                                    now).sessions
    /\ UNCHANGED <<now, next_cleanup, sweep, sweepRest>>

\* one second passes
SweepTick ==
    /\ now < MaxSweepNow
    /\ now' = now + 1
    /\ UNCHANGED <<sessions, next_cleanup, sweep, sweepRest>>

NextSweep ==
    \/ SweepCollect
    \/ \E key \in {Client} \X CapAssocs : SweepRemove(key)
    \/ SweepReturn
    \/ \E p \in SweepPackets : SweepReceive(p)
    \/ SweepTick

SpecSweep == InitSweep /\ [][NextSweep]_vars

(***************************************************************************)
(* SpecAuthRace: connections that send an Authenticate with a wrong token  *)
(* for the same user at the same time.  authenticate holds the lock of the *)
(* failed-attempts map during the rate limit block and during get_mut of   *)
(* the mismatch branch, and not in between; the runtime is multi-threaded. *)
(***************************************************************************)
MaxRaceConns == 3
RaceConns == 1..MaxRaceConns
RaceUser == "u1"

\* the failures of the user recorded before the connections arrive
PriorFailures == {0, MAX_FAILED_ATTEMPTS - 1}

InitAuthRace ==
    /\ InitBase
    /\ InitAddrVars /\ InitListenerVars /\ InitFragRaceVars /\ InitSweepVars
    /\ InitUdpAssocVars
    /\ \E n \in PriorFailures :
         auth_race = [pc |-> "run", prior |-> n,
                      failed_attempts |-> IF n = 0 THEN << >>
                                 ELSE [u \in {RaceUser} |->
                                          [count |-> n, first_failure |-> 0]],
                      conns |-> [c \in RaceConns |-> [pc |-> "check", result |-> "none"]],
                      compared |-> n]   \* mismatching tokens compared in the window

authRaceRest == <<baseRest, addr_call, listener, frag_race, sweep, udp_assoc>>

\* the rate limit block, under the guard of get_mut
RaceCheck(c) ==
    /\ auth_race.pc = "run"
    /\ auth_race.conns[c].pc = "check"
    /\ auth_race' =
         IF rate_limited(auth_race.failed_attempts, RaceUser, now)
         THEN [auth_race EXCEPT !.conns[c] = [pc |-> "done",
                                              result |-> "Too many failed attempts"]]
         ELSE [auth_race EXCEPT !.failed_attempts = rate_limit_reset(@, RaceUser, now),
                                !.conns[c].pc = "verify_token"]
    /\ UNCHANGED authRaceRest

\* verify_token on a token that does not match
RaceVerify(c) ==
    /\ auth_race.pc = "run"
    /\ auth_race.conns[c].pc = "verify_token"
    /\ ~verify_token("k2", export_keying_material(RaceUser, users[RaceUser]))
    /\ auth_race' = [auth_race EXCEPT !.compared = @ + 1, !.conns[c].pc = "get_mut"]
    /\ UNCHANGED authRaceRest

\* the mismatch branch: get_mut, and increment when there is a record
RaceGetMut(c) ==
    /\ auth_race.pc = "run"
    /\ auth_race.conns[c].pc = "get_mut"
    /\ auth_race' =
         IF RaceUser \in DOMAIN auth_race.failed_attempts
         THEN [auth_race EXCEPT !.failed_attempts[RaceUser] = increment(@, now),
                                !.conns[c] = [pc |-> "done",
                                              result |-> "Unauthenticated access"]]
         ELSE [auth_race EXCEPT !.conns[c].pc = "insert"]
    /\ UNCHANGED authRaceRest

\* the mismatch branch when get_mut found no record: insert a new one
RaceInsert(c) ==
    /\ auth_race.pc = "run"
    /\ auth_race.conns[c].pc = "insert"
    /\ auth_race' = [auth_race EXCEPT
                       !.failed_attempts = map_insert(@, RaceUser, FailedAttempts_new(now)),
                       !.conns[c] = [pc |-> "done", result |-> "Unauthenticated access"]]
    /\ UNCHANGED authRaceRest

NextAuthRace ==
    \/ \E c \in RaceConns : RaceCheck(c)
    \/ \E c \in RaceConns : RaceVerify(c)
    \/ \E c \in RaceConns : RaceGetMut(c)
    \/ \E c \in RaceConns : RaceInsert(c)

SpecAuthRace == InitAuthRace /\ [][NextAuthRace]_vars

(***************************************************************************)
(* SpecAccept: the accept loop of one listener, the connections that       *)
(* arrive at it and the shutdown signal of the process (the watch channel  *)
(* of main).  The Trojan loop polls accept first (select! with biased),    *)
(* the TUIC loop polls its two branches in random order.                   *)
(***************************************************************************)
Listeners == {"Trojan", "Tuic"}
MaxPending == 2     \* connections waiting to be accepted
MaxAccepted == 3    \* connections counted before and after the signal

InitAccept ==
    /\ InitBase
    /\ InitAddrVars /\ InitFragRaceVars /\ InitAuthRaceVars /\ InitSweepVars
    /\ InitUdpAssocVars
    /\ \E l \in Listeners :
         listener = [pc |-> "loop", server |-> l,
                     pending |-> 0,          \* connections accept() can return
                     shutdown |-> FALSE,     \* shutdown_tx.send(()) was called
                     accepted |-> 0,         \* connections accepted before the signal
                     accepted_after |-> 0]   \* connections accepted after it

acceptRest == <<baseRest, addr_call, frag_race, auth_race, sweep, udp_assoc>>

\* a client connects
ConnectionArrives ==
    /\ listener.pc = "loop"
    /\ listener.pending < MaxPending
    /\ listener' = [listener EXCEPT !.pending = @ + 1]
    /\ UNCHANGED acceptRest

\* main: shutdown_tx.send(())
ShutdownSend ==
    /\ listener.pc # "none"
    /\ ~listener.shutdown
    /\ listener' = [listener EXCEPT !.shutdown = TRUE]
    /\ UNCHANGED acceptRest

\* the connection is accepted and its handler spawned
accepted_one(l) ==
    [l EXCEPT !.pending = @ - 1,
              !.accepted = IF ~l.shutdown /\ @ < MaxAccepted THEN @ + 1 ELSE @,
              !.accepted_after = IF l.shutdown /\ @ < MaxAccepted THEN @ + 1 ELSE @]

\* accept_loop of the Trojan server, the accept branch: it is polled first
TrojanAccept ==
    /\ listener.pc = "loop"
    /\ listener.server = "Trojan"
    /\ listener.pending > 0
    /\ listener' = accepted_one(listener)
    /\ UNCHANGED acceptRest

\* accept_loop of the Trojan server, the rx.changed() branch: it is polled
\* when accept is not ready
TrojanBreak ==
    /\ listener.pc = "loop"
    /\ listener.server = "Trojan"
    /\ listener.pending = 0
    /\ listener.shutdown
    /\ listener' = [listener EXCEPT !.pc = "stopped"]
    /\ UNCHANGED acceptRest

\* the loop of TuicServer::start, the ep.accept() branch
TuicAccept ==
    /\ listener.pc = "loop"
    /\ listener.server = "Tuic"
    /\ listener.pending > 0
    /\ listener' = accepted_one(listener)
    /\ UNCHANGED acceptRest

\* the loop of TuicServer::start, the rx.changed() branch
TuicReturn ==
    /\ listener.pc = "loop"
    /\ listener.server = "Tuic"
    /\ listener.shutdown
    /\ listener' = [listener EXCEPT !.pc = "stopped"]
    /\ UNCHANGED acceptRest

NextAccept ==
    \/ ConnectionArrives
    \/ ShutdownSend
    \/ TrojanAccept
    \/ TrojanBreak
    \/ TuicAccept
    \/ TuicReturn

SpecAccept == InitAccept /\ [][NextAccept]_vars

\* the loop task is scheduled whenever it can take a step; of two ready
\* branches the TUIC loop picks either, so the branch of the signal, ready
\* from the signal on, is taken at last
SpecAcceptLive ==
    /\ SpecAccept
    /\ WF_vars(TrojanAccept) /\ WF_vars(TrojanBreak)
    /\ WF_vars(TuicAccept) /\ WF_vars(TuicReturn)

(***************************************************************************)
(* SpecUdpAssoc: one Trojan UDP association (handle_udp_associate_tls):    *)
(* the send task that reads the client's frames and sends them upstream,   *)
(* the receive task of each UDP socket, the reply loop of the handler, the *)
(* channel between them and the CancellationToken.                         *)
(***************************************************************************)
MaxFrames == 2      \* frames the client writes
MaxReplies == 2     \* datagrams that arrive from upstream
MaxChannel == 1     \* replies waiting in the channel (1024 in the program)

\* read_trojan_udp_frame on the bytes the client has written
read_trojan_udp_frame(stream) ==
    LET address == Trojan_Address_read_from(stream)
    IN IF ~address.ok THEN ReadErr
       ELSE LET len == read_exact(address.rest, 2)
            IN IF ~len.ok THEN ReadErr
               ELSE LET crlf == read_exact(len.rest, 2)
                    IN IF ~crlf.ok THEN ReadErr
                       ELSE IF crlf.value # CRLF THEN ReadErr
                       ELSE LET payload == read_exact(crlf.rest, u16_of(len.value))
                            IN IF ~payload.ok THEN ReadErr
                               ELSE ReadOk([dst |-> address.value,
                                            payload |-> payload.value],
                                           payload.rest)

\* the frames of the client: to 10.0.0.1:53, to the name "a", one with a
\* wrong CRLF and one with an unknown address type
UdpFrameBytes(address, crlf) == address \o <<0, 1>> \o crlf \o <<42>>
ClientFrames ==
    {UdpFrameBytes(<<TROJAN_IPV4, 10, 0, 0, 1, 0, 53>>, CRLF),
     UdpFrameBytes(<<TROJAN_DOMAIN_NAME, 1, 97, 0, 53>>, CRLF),
     UdpFrameBytes(<<TROJAN_IPV4, 10, 0, 0, 1, 0, 53>>, <<13, 13>>),
     UdpFrameBytes(<<2, 10, 0, 0, 1, 0, 53>>, CRLF)}

\* what read_trojan_udp_frame returns for each of them
ParsedFrames == [f \in ClientFrames |-> read_trojan_udp_frame(f)]

\* the sockets the handler could create: the dual-stack one, or those of
\* the two families, or none
SocketSets == {{"dual"}, {"v4", "v6"}, {}}

InitUdpAssoc ==
    /\ InitBase
    /\ InitAddrVars /\ InitListenerVars /\ InitFragRaceVars /\ InitAuthRaceVars
    /\ InitSweepVars
    /\ \E s \in SocketSets :
         udp_assoc = [pc |-> "loop",          \* the reply loop of the handler
                      client |-> "open",      \* the client's side of the TLS stream
                      in |-> << >>,           \* frames written by the client, unread
                      frames |-> 0,           \* frames the client has written
                      writer_ok |-> TRUE,     \* writes to the client succeed
                      write_failed |-> FALSE, \* write_trojan_udp_frame has failed
                      cancel |-> FALSE,       \* the CancellationToken
                      aborted |-> FALSE,      \* abort() was called on the tasks
                      send_task |-> [pc |-> "read"],
                      recv |-> [x \in s |-> "recv_from"],
                      replies |-> 0,          \* datagrams received from upstream
                      channel |-> 0,          \* replies in udp_resp_tx / udp_resp_rx
                      sent |-> 0,             \* datagrams sent upstream
                      skipped |-> 0]          \* frames whose name did not resolve

udpAssocRest == <<baseRest, addr_call, listener, frag_race, auth_race, sweep>>

\* the client writes a frame
ClientWrite(f) ==
    /\ udp_assoc.pc # "none"
    /\ udp_assoc.client = "open"
    /\ udp_assoc.frames < MaxFrames
    /\ udp_assoc' = [udp_assoc EXCEPT !.in = Append(@, f), !.frames = @ + 1]
    /\ UNCHANGED udpAssocRest

\* the client closes its stream
ClientClose ==
    /\ udp_assoc.pc # "none"
    /\ udp_assoc.client = "open"
    /\ udp_assoc' = [udp_assoc EXCEPT !.client = "closed"]
    /\ UNCHANGED udpAssocRest

\* the connection to the client breaks for writing
WriterBreaks ==
    /\ udp_assoc.pc # "none"
    /\ udp_assoc.writer_ok
    /\ udp_assoc' = [udp_assoc EXCEPT !.writer_ok = FALSE]
    /\ UNCHANGED udpAssocRest

\* the send task reads the next frame and leaves without cancelling
SendReadNoCancel ==
    /\ udp_assoc.send_task.pc = "read"
    /\ udp_assoc.in # << >> \/ udp_assoc.client = "closed"
    /\ udp_assoc' =
         IF udp_assoc.in # << >> /\ ParsedFrames[Head(udp_assoc.in)].ok
         THEN [udp_assoc EXCEPT
                 !.in = Tail(@),
                 !.send_task = [pc |-> "resolve",
                                frame |-> ParsedFrames[Head(udp_assoc.in)].value]]
         ELSE [udp_assoc EXCEPT !.in = << >>, !.send_task = [pc |-> "stopped"]]
    /\ UNCHANGED udpAssocRest

\* the send task: read_trojan_udp_frame; an error (a malformed frame, or the
\* end of the stream) cancels the token and ends the task
SendRead ==
    /\ udp_assoc.send_task.pc = "read"
    /\ udp_assoc.in # << >> \/ udp_assoc.client = "closed"
    /\ udp_assoc' =
         IF udp_assoc.in # << >> /\ ParsedFrames[Head(udp_assoc.in)].ok
         THEN [udp_assoc EXCEPT
                 !.in = Tail(@),
                 !.send_task = [pc |-> "resolve",
                                frame |-> ParsedFrames[Head(udp_assoc.in)].value]]
         ELSE [udp_assoc EXCEPT !.in = << >>, !.cancel = TRUE,
                               !.send_task = [pc |-> "stopped"]]
    /\ UNCHANGED udpAssocRest

\* the send task: frame.dst.to_socket_addrs(); the frame is skipped when it
\* fails
SendResolve(lookup) ==
    /\ udp_assoc.send_task.pc = "resolve"
    /\ LET target == Trojan_to_socket_addrs(udp_assoc.send_task.frame.dst, lookup)
       IN udp_assoc' =
            IF target.ok
            THEN [udp_assoc EXCEPT !.send_task.pc = "send_to"]
            ELSE [udp_assoc EXCEPT !.send_task = [pc |-> "read"], !.skipped = @ + 1]
    /\ UNCHANGED udpAssocRest

\* the send task: send_to on the socket of the family, when there is one
SendTo ==
    /\ udp_assoc.send_task.pc = "send_to"
    /\ udp_assoc' = [udp_assoc EXCEPT
                       !.send_task = [pc |-> "read"],
                       !.sent = IF DOMAIN udp_assoc.recv # {} THEN @ + 1 ELSE @]
    /\ UNCHANGED udpAssocRest

\* a receive task: recv_from returns a datagram
RecvFrom(s) ==
    /\ s \in DOMAIN udp_assoc.recv
    /\ udp_assoc.recv[s] = "recv_from"
    /\ udp_assoc.replies < MaxReplies
    /\ udp_assoc' = [udp_assoc EXCEPT !.recv[s] = "send", !.replies = @ + 1]
    /\ UNCHANGED udpAssocRest

\* a receive task: tx.send of the datagram, when the channel has room
RecvForward(s) ==
    /\ s \in DOMAIN udp_assoc.recv
    /\ udp_assoc.recv[s] = "send"
    /\ udp_assoc.channel < MaxChannel
    /\ udp_assoc' = [udp_assoc EXCEPT !.recv[s] = "recv_from", !.channel = @ + 1]
    /\ UNCHANGED udpAssocRest

\* a receive task: the cancelled() branch of its select
RecvCancelled(s) ==
    /\ s \in DOMAIN udp_assoc.recv
    /\ udp_assoc.recv[s] = "recv_from"
    /\ udp_assoc.cancel
    /\ udp_assoc' = [udp_assoc EXCEPT !.recv[s] = "stopped"]
    /\ UNCHANGED udpAssocRest

\* a task the handler aborted ends at the await it is waiting in
RecvAborted(s) ==
    /\ s \in DOMAIN udp_assoc.recv
    /\ udp_assoc.recv[s] # "stopped"
    /\ udp_assoc.aborted
    /\ udp_assoc' = [udp_assoc EXCEPT !.recv[s] = "stopped"]
    /\ UNCHANGED udpAssocRest

SendAborted ==
    /\ udp_assoc.send_task.pc # "stopped"
    /\ udp_assoc.aborted
    /\ udp_assoc' = [udp_assoc EXCEPT !.send_task = [pc |-> "stopped"]]
    /\ UNCHANGED udpAssocRest

\* what follows the reply loop: cancel.cancel(), drop(udp_resp_tx), abort of
\* the receive tasks and of the send task, return
after_loop(a) ==
    [a EXCEPT !.pc = "returned", !.cancel = TRUE, !.aborted = TRUE, !.channel = 0]

\* the reply loop: a reply from the channel is written to the client; the
\* loop is left when the write fails
ReplyWrite ==
    /\ udp_assoc.pc = "loop"
    /\ udp_assoc.channel > 0
    /\ udp_assoc' = IF udp_assoc.writer_ok
                    THEN [udp_assoc EXCEPT !.channel = @ - 1]
                    ELSE after_loop([udp_assoc EXCEPT !.write_failed = TRUE])
    /\ UNCHANGED udpAssocRest

\* the reply loop: the cancelled() branch
ReplyCancelled ==
    /\ udp_assoc.pc = "loop"
    /\ udp_assoc.cancel
    /\ udp_assoc' = after_loop(udp_assoc)
    /\ UNCHANGED udpAssocRest

NextUdpAssoc ==
    \/ \E f \in ClientFrames : ClientWrite(f)
    \/ ClientClose
    \/ WriterBreaks
    \/ SendRead
    \/ \E lookup \in {<< >>, <<SocketAddr(Remote4, 53)>>} : SendResolve(lookup)
    \/ SendTo
    \/ \E s \in {"dual", "v4", "v6"} : RecvFrom(s)
    \/ \E s \in {"dual", "v4", "v6"} : RecvForward(s)
    \/ \E s \in {"dual", "v4", "v6"} : RecvCancelled(s)
    \/ \E s \in {"dual", "v4", "v6"} : RecvAborted(s)
    \/ SendAborted
    \/ ReplyWrite
    \/ ReplyCancelled

SpecUdpAssoc == InitUdpAssoc /\ [][NextUdpAssoc]_vars

\* every task of the association is scheduled when it can take a step
SpecUdpAssocLive ==
    /\ SpecUdpAssoc
    /\ WF_vars(SendRead)
    /\ WF_vars(\E lookup \in {<< >>, <<SocketAddr(Remote4, 53)>>} : SendResolve(lookup))
    /\ WF_vars(SendTo)
    /\ WF_vars(\E s \in {"dual", "v4", "v6"} : RecvCancelled(s))
    /\ WF_vars(\E s \in {"dual", "v4", "v6"} : RecvAborted(s))
    /\ WF_vars(SendAborted)
    /\ WF_vars(ReplyWrite)
    /\ WF_vars(ReplyCancelled)

(***************************************************************************)
(* Claims about reassembly (checked under SpecReasm).                      *)
(***************************************************************************)
\* C11: once a Dissociate(a) has been processed, no reassembly state for
\* assoc_id a remains in any store: no buffer under (client, a) and no
\* session for a, so that the next Packet starts a fresh session.
C11_DissociateClears ==
    [][last_op'.kind = "dissociate" =>
         /\ <<Client, last_op'.frag.assoc_id>> \notin DOMAIN sessions'
         /\ last_op'.frag.assoc_id \notin DOMAIN udp_sessions']_vars

\* the Dissociate has been processed and the fragments received before it
\* are still buffered in the session
C11_Reached ==
    /\ last_op.kind = "dissociate"
    /\ 1 \in DOMAIN udp_sessions
    /\ 7 \in DOMAIN udp_sessions[1].pakets

\* C12: a packet assembled from interleaved fragments holds bytes of its own
\* fragments only.
C12_OwnBytesOnly ==
    (last_op.kind = "packet" /\ is_some(last_op.ret)) =>
        \A k \in DOMAIN last_op.ret[1] : last_op.ret[1][k] \div 10 = last_op.frag.pkt_id

\* fragment 0 of packet 7 and fragment 1 of packet 8 were assembled into one
\* payload
C12_Reached ==
    /\ store = "UdpSessionManager"
    /\ last_op.ret = Some(<<FragByte(7, 0), FragByte(8, 1)>>)

\* the step handles one Packet (a Tick changes the clock, a Dissociate and a
\* cleanup round change last_op.kind)
PacketStep == last_op'.kind = "packet" /\ now' = now

\* the incomplete buffer that fragment p is added to, in the stores us
\* (UdpSession) and ms (UdpSessionManager): its announced frag_total and its
\* slots, or None
BufferOf(us, ms, p) ==
    IF store = "UdpSession"
    THEN IF p.assoc_id \in DOMAIN us /\ p.pkt_id \in DOMAIN us[p.assoc_id].pakets
         THEN Some([total |-> us[p.assoc_id].pakets[p.pkt_id].fragment_count,
                    slots |-> us[p.assoc_id].pakets[p.pkt_id].received])
         ELSE None
    ELSE IF <<Client, p.assoc_id>> \in DOMAIN ms
         THEN Some([total |-> ms[<<Client, p.assoc_id>>].frag_total,
                    slots |-> ms[<<Client, p.assoc_id>>].fragments])
         ELSE None

\* the frag_ids whose payload the buffer holds
Present(b) == IF is_some(b) THEN {i \in DOMAIN b[1].slots : is_some(b[1].slots[i])} ELSE {}

\* the number of payload bytes the buffer holds
RECURSIVE BytesIn(_, _)
BytesIn(b, ids) ==
    IF ids = {} THEN 0
    ELSE LET i == CHOOSE x \in ids : TRUE
         IN Len(b[1].slots[i][1]) + BytesIn(b, ids \ {i})

\* the payloads of slots 0..n-1, one after the other
RECURSIVE Ascending(_, _)
Ascending(slots, n) ==
    IF n = 0 THEN << >> ELSE Ascending(slots, n - 1) \o slots[n - 1][1]

\* fragment p is one of the missing fragments of its packet: its ids are in
\* range, the buffer it goes to (if any) was opened for the same packet with
\* the same frag_total and misses p, and no byte cap rejects p
MissingFragment(p) ==
    LET b == BufferOf(udp_sessions, sessions, p)
    IN /\ p.frag_total \in 2..BITMAP_BITS
       /\ p.frag_id < p.frag_total
       /\ is_some(b) => /\ b[1].total = p.frag_total
                        /\ p.frag_id \notin Present(b)
                        /\ \A i \in Present(b) : b[1].slots[i][1][1] \div 10 = p.pkt_id
       /\ is_some(max_reassembly) =>
              BytesIn(b, Present(b)) + Len(p.payload) <= max_reassembly[1]

\* C13: whatever the order in which the distinct fragments of a packet of 2
\* to 128 fragments arrive, every arrival but the last returns nothing and
\* keeps the fragment, and the arrival of the last missing fragment returns
\* the payloads concatenated in ascending frag_id order and removes the
\* buffer.
C13_AnyOrderAssembles ==
    [][/\ (PacketStep /\ MissingFragment(last_op'.frag)) =>
            LET p == last_op'.frag
                b == BufferOf(udp_sessions, sessions, p)
                after == BufferOf(udp_sessions', sessions', p)
                slots == [i \in 0..(p.frag_total - 1) |->
                             IF i = p.frag_id THEN Some(p.payload)
                             ELSE IF is_some(b) THEN b[1].slots[i] ELSE None]
            IN IF Present(b) \cup {p.frag_id} = 0..(p.frag_total - 1)
               THEN /\ last_op'.ret = Some(Ascending(slots, p.frag_total))
                    /\ after = None
               ELSE /\ last_op'.ret = None
                    /\ is_some(after)
                    /\ after[1].slots = slots
       /\ (last_op'.kind = "burst" /\ last_op.kind = "none" /\ max_reassembly = None) =>
            /\ ~last_op'.early
            /\ last_op'.ret = Some([k \in 1..BITMAP_BITS |-> FragByte(9, k - 1)])
            /\ BufferOf(udp_sessions', sessions', last_op'.frag) = None]_vars

\* fragment 0 arrived last and completed the 3-fragment packet
C13_Reached ==
    /\ last_op.kind = "packet"
    /\ last_op.frag = Fragment(7, 3, 0, FALSE)
    /\ last_op.ret = Some(<<FragByte(7, 0), FragByte(7, 1), FragByte(7, 2)>>)

\* the bit of p.frag_id is set in the bitmap of the buffer that p is added to
BitAlreadySet(p) ==
    IF store = "UdpSession"
    THEN /\ p.assoc_id \in DOMAIN udp_sessions
         /\ p.pkt_id \in DOMAIN udp_sessions[p.assoc_id].pakets
         /\ ~(overflow_checks /\ shl_overflows(p.frag_id))
         /\ bit_of(p.frag_id) \in udp_sessions[p.assoc_id].pakets[p.pkt_id].received_bitmap
    ELSE /\ <<Client, p.assoc_id>> \in DOMAIN sessions
         /\ p.frag_id \in sessions[<<Client, p.assoc_id>>].received_bitmap

\* C14: a fragment (of a fragmented packet) whose frag_id bit is already set
\* in the buffer leaves the buffer as it is (slots, bitmap, count, bytes, time of the last update)
\* and returns nothing: the payload received first stays.
C14_DuplicateIgnored ==
    [][(PacketStep /\ ~only_one_frag(last_op'.frag) /\ BitAlreadySet(last_op'.frag)) =>
          LET p == last_op'.frag
          IN /\ last_op'.ret = None
             /\ last_op'.sent = None
             /\ ~last_op'.panicked
             /\ IF store = "UdpSession"
                THEN /\ p.assoc_id \in DOMAIN udp_sessions'
                     /\ udp_sessions'[p.assoc_id].pakets = udp_sessions[p.assoc_id].pakets
                ELSE sessions' = sessions]_vars

\* fragment 0 arrived a second time, with another payload, and the buffer
\* still holds the first payload
C14_Reached ==
    /\ last_op.kind = "packet"
    /\ last_op.frag = Fragment(7, 2, 0, TRUE)
    /\ last_op.ret = None
    /\ is_some(BufferOf(udp_sessions, sessions, last_op.frag))
    /\ BufferOf(udp_sessions, sessions, last_op.frag)[1].slots[0] = Some(FragPayload(7, 0, FALSE))

\* C15: in every buffer of every store, bit i of the bitmap is set exactly
\* when slot i holds a fragment, the received count is the number of set
\* bits, and that number is at most frag_total.
C15_BitmapMatchesSlots ==
    /\ \A a \in DOMAIN udp_sessions : \A k \in DOMAIN udp_sessions[a].pakets :
          LET fp == udp_sessions[a].pakets[k]
          IN /\ \A i \in 0..(BITMAP_BITS - 1) :
                    i \in fp.received_bitmap <=>
                        (i \in DOMAIN fp.received /\ is_some(fp.received[i]))
             /\ Cardinality({i \in DOMAIN fp.received : is_some(fp.received[i])})
                    = Cardinality(fp.received_bitmap)
             /\ Cardinality(fp.received_bitmap) <= fp.fragment_count
    /\ \A key \in DOMAIN sessions :
          LET buf == sessions[key]
          IN /\ \A i \in 0..(BITMAP_BITS - 1) :
                    i \in buf.received_bitmap <=>
                        (i \in DOMAIN buf.fragments /\ is_some(buf.fragments[i]))
             /\ buf.received_count = Cardinality(buf.received_bitmap)
             /\ Cardinality(buf.received_bitmap) <= buf.frag_total

\* a build without overflow checks stored fragment 128 of a packet announced
\* with 129 fragments: bit 0 is set and slot 0 is empty
C15_Reached ==
    /\ store = "UdpSession"
    /\ ~overflow_checks
    /\ 1 \in DOMAIN udp_sessions
    /\ 7 \in DOMAIN udp_sessions[1].pakets
    /\ udp_sessions[1].pakets[7].received_bitmap = {0}
    /\ ~is_some(udp_sessions[1].pakets[7].received[0])
    /\ is_some(udp_sessions[1].pakets[7].received[BITMAP_BITS])

\* fragment p would be stored by UdpSessionManager (its slot exists and is
\* empty) and its payload pushes the bytes of the buffer above the cap
OverCap(p) ==
    LET b == BufferOf(udp_sessions, sessions, p)
    IN /\ store = "UdpSessionManager"
       /\ is_some(max_reassembly)
       /\ IF is_some(b)
          THEN p.frag_id \in DOMAIN b[1].slots /\ p.frag_id \notin Present(b)
          ELSE p.frag_total <= BITMAP_BITS /\ p.frag_id < p.frag_total
       /\ BytesIn(b, Present(b)) + Len(p.payload) > max_reassembly[1]

\* C16: with max_reassembly_bytes_per_session configured, a fragment that
\* would push the bytes of its buffer above the cap is not stored, the
\* buffer of its (client, assoc_id) key is removed and nothing is returned;
\* no buffer of the manager ever holds more bytes than the cap.
C16_CapDropsBuffer ==
    [][/\ (PacketStep /\ OverCap(last_op'.frag)) =>
            /\ last_op'.ret = None
            /\ <<Client, last_op'.frag.assoc_id>> \notin DOMAIN sessions'
       /\ is_some(max_reassembly) =>
            \A key \in DOMAIN sessions' :
               /\ sessions'[key].total_bytes <= max_reassembly[1]
               /\ BytesIn(Some([slots |-> sessions'[key].fragments]),
                          {i \in DOMAIN sessions'[key].fragments :
                              is_some(sessions'[key].fragments[i])})
                      <= max_reassembly[1]]_vars

\* fragment 1 came after the two bytes of fragment 0: it was rejected and the
\* buffer is gone
C16_Reached ==
    /\ store = "UdpSessionManager"
    /\ max_reassembly = Some(MAX_REASSEMBLY_BYTES)
    /\ last_op.kind = "packet"
    /\ last_op.frag = Fragment(7, 2, 1, FALSE)
    /\ last_op.ret = None
    /\ <<Client, 1>> \notin DOMAIN sessions

\* the buffers of assoc_id a in the session map us
PaketsOf(us, a) == IF a \in DOMAIN us THEN us[a].pakets ELSE << >>

\* the step stores nothing, completes and removes no buffer
NothingStored(p) ==
    /\ PaketsOf(udp_sessions', p.assoc_id) = PaketsOf(udp_sessions, p.assoc_id)
    /\ sessions' = sessions
    /\ last_op'.ret = None
    /\ last_op'.sent = None

\* C17: a packet announced with 128 fragments completes once its 128
\* fragments have arrived; a fragment announced with more than 128 creates no
\* buffer, changes no buffer and does not make the handler panic.
C17_FragTotalLimit ==
    [][/\ (last_op'.kind = "burst" /\ last_op.kind = "none" /\ max_reassembly = None) =>
            is_some(last_op'.ret)
       /\ (PacketStep /\ last_op'.frag.frag_total > BITMAP_BITS) =>
            (NothingStored(last_op'.frag) /\ ~last_op'.panicked)]_vars

\* a fragment announced with 129 fragments made the handler panic
C17_Reached ==
    /\ store = "UdpSession"
    /\ overflow_checks
    /\ last_op.kind = "packet"
    /\ last_op.frag.frag_total = BITMAP_BITS + 1
    /\ last_op.panicked

\* C18: a fragment whose frag_id is not below its own frag_total, or not
\* below the frag_total of the buffer it is added to, is rejected: nothing is
\* stored, completed or removed, and the handler does not panic.
C18_InvalidFragmentRejected ==
    [][(/\ PacketStep
        /\ \/ last_op'.frag.frag_id >= last_op'.frag.frag_total
           \/ LET b == BufferOf(udp_sessions, sessions, last_op'.frag)
              IN is_some(b) /\ last_op'.frag.frag_id >= b[1].total) =>
          (NothingStored(last_op'.frag) /\ ~last_op'.panicked)]_vars

\* fragment 2 of a packet of 2 fragments made the handler panic
C18_Reached ==
    /\ store = "UdpSession"
    /\ last_op.kind = "packet"
    /\ last_op.frag = Fragment(7, 2, 2, FALSE)
    /\ last_op.panicked

\* C19: a fragment of a packet that has been completed and removed creates
\* no buffer and leads to no second assembled payload.
C19_LateFragmentDiscarded ==
    [][(/\ PacketStep
        /\ ~only_one_frag(last_op'.frag)
        /\ last_op'.frag.pkt_id \in done_pkts
        /\ BufferOf(udp_sessions, sessions, last_op'.frag) = None) =>
          /\ BufferOf(udp_sessions', sessions', last_op'.frag) = None
          /\ last_op'.ret = None
          /\ last_op'.sent = None]_vars

\* packet 7 was completed and removed, and a buffer for packet 7 exists again
C19_Reached ==
    /\ store = "UdpSession"
    /\ 7 \in done_pkts
    /\ 7 \in DOMAIN PaketsOf(udp_sessions, 1)

\* C20: after a round of the periodic cleanup no store holds a buffer whose
\* last fragment was stored more than session_timeout ago.
C20_CleanupRemovesExpired ==
    [][(last_op'.kind = "cleanup" /\ now' = now) =>
          /\ \A key \in DOMAIN sessions' :
                now - sessions'[key].last_update <= SESSION_TIMEOUT
          /\ \A a \in DOMAIN udp_sessions' :
                udp_sessions'[a].pakets # << >> => now - last_stored <= SESSION_TIMEOUT]_vars

\* the cleanup has run and the session still holds fragments of packet 7
\* stored more than session_timeout ago
C20_Reached ==
    /\ store = "UdpSession"
    /\ last_op.kind = "cleanup"
    /\ 7 \in DOMAIN PaketsOf(udp_sessions, 1)
    /\ now - last_stored > SESSION_TIMEOUT

\* C33: a Dissociate for an assoc_id that has no session and no reassembly
\* buffer returns and changes no state: the sessions and buffers of the other
\* associations, the auth gate and the failed-attempts record stay as they
\* were.
C33_UnknownDissociateIsNoOp ==
    [][\A a \in ReasmAssocs :
          (/\ ReasmDissociate(a)
           /\ a \notin DOMAIN udp_sessions
           /\ <<Client, a>> \notin DOMAIN sessions)
              => /\ sessions' = sessions
                 /\ udp_sessions' = udp_sessions
                 /\ UNCHANGED <<gateVars, authVars>>
                 /\ last_op'.kind = "dissociate"]_vars

\* a Dissociate for the unused association was handled while the other
\* association had a session or a buffer
C33_Reached ==
    /\ last_op.kind = "dissociate"
    /\ last_op.frag.assoc_id = 2
    /\ \/ <<Client, 1>> \in DOMAIN sessions
       \/ (1 \in DOMAIN udp_sessions /\ udp_sessions[1].pakets # << >>)

(***************************************************************************)
(* Claims about max_sessions (checked under SpecCap).                      *)
(***************************************************************************)
\* the Packet of this step opens a buffer: its key has none and its
\* frag_total is in range
OpensBuffer(p) ==
    /\ <<Client, p.assoc_id>> \notin DOMAIN sessions
    /\ p.frag_total <= BITMAP_BITS

C38_ReceiveFragmentReturns ==
    [][(/\ is_some(cap.max_sessions)
        /\ cap.blocked = 0
        /\ PacketStep
        /\ <<Client, last_op'.frag.assoc_id>> \notin DOMAIN sessions)
           => cap'.blocked = 0]_vars

\* with room for two buffers and none stored, receive_fragment was called
\* for the first fragment of a packet and has not returned
C38_NeverReturns ==
    /\ cap.max_sessions = Some(2)
    /\ sessions = << >>
    /\ last_op.kind = "packet"
    /\ last_op.frag.frag_id = 0
    /\ last_op.frag.frag_total = 2
    /\ last_op.ret = None
    /\ cap.blocked = 1

(***************************************************************************)
(* Claims about the Packet codec and the replies (checked under SpecCodec).*)
(***************************************************************************)
\* C22: the frames of one reply reach the client with frag_id 0, 1, ... in
\* that order, each with the request's assoc_id and pkt_id and the same
\* frag_total (the number of frames of the reply), the address on frame 0
\* only; once the transport has refused a datagram no further frame is sent.
C22_ReplyFramesInOrder ==
    [][/\ codec'.op \in {"reply", "replied"} =>
            /\ \A k \in DOMAIN codec'.sent :
                  /\ codec'.sent[k].header = PacketHeader
                  /\ codec'.sent[k].frag_id = k - 1
                  /\ codec'.sent[k].frag_total = div_ceil(codec'.len, MAX_PAYLOAD_PER_PACKET)
                  /\ codec'.sent[k].assoc_id = codec'.assoc_id
                  /\ codec'.sent[k].pkt_id = codec'.pkt_id
                  /\ codec'.sent[k].address = IF k = 1 THEN codec'.address ELSE AddressNone
            /\ (codec'.op = "replied" /\ ~codec'.failed) =>
                  Len(codec'.sent) = div_ceil(codec'.len, MAX_PAYLOAD_PER_PACKET)
       /\ (codec.op = "reply" /\ codec.failed) =>
            (codec'.op = "replied" /\ codec'.sent = codec.sent)]_vars

\* a reply of three frames with a socket address was sent whole
C22_Reached ==
    /\ codec.op = "replied"
    /\ ~codec.failed
    /\ Len(codec.sent) = 3
    /\ codec.address.kind = "SocketAddress"

\* C23: a payload of 0 to 65535 bytes is cut into at most
\* ceil(len / 1200) <= 128 fragments, each with frag_total equal to their
\* number, and their reassembly returns the payload.
C23_FragmentThenAssemble ==
    codec.op = "fragment" =>
        /\ codec.count <= div_ceil(codec.len, MAX_PAYLOAD_PER_PACKET)
        /\ div_ceil(codec.len, MAX_PAYLOAD_PER_PACKET) <= BITMAP_BITS
        /\ codec.frag_totals \subseteq {codec.count}
        /\ codec.assembled = Some(Payload(codec.len))

\* the empty payload was cut into no fragment at all and nothing was
\* assembled
C23_Reached ==
    /\ codec.op = "fragment"
    /\ codec.len = 0
    /\ codec.count = 0
    /\ codec.assembled = None

\* C24: reading what write_to_buf wrote yields the Packet that was written
\* and leaves the bytes that follow it; when bytes are missing at the end of
\* the stream the read fails.
C24_PacketRoundTrip ==
    codec.op = "roundtrip" =>
        IF codec.cut = 0
        THEN /\ codec.result.ok
             /\ codec.result.value = codec.packet
             /\ codec.result.rest = codec.tail
        ELSE ~codec.result.ok

\* a Packet with a domain address and a 3-byte payload was read back, and
\* the same Packet lacking its last byte was refused
C24_Reached ==
    /\ codec.op = "roundtrip"
    /\ codec.packet.address.kind = "DomainAddress"
    /\ Len(codec.packet.payload) = 3
    /\ codec.cut = 1
    /\ ~codec.result.ok

(***************************************************************************)
(* Claims about the streams of a connection (checked under SpecStreams).   *)
(***************************************************************************)
\* a valid Authenticate waits on a unidirectional stream not yet accepted
AuthenticateWaiting ==
    \E k \in DOMAIN streams.uni : streams.uni[k].cmd = ValidAuthenticate

\* C26: a Packet or Dissociate waiting on the gate does not keep the other
\* unidirectional streams from being accepted: its wait never runs into
\* the timeout while a valid Authenticate, opened during the wait, is still
\* unread.
C26_WaitDoesNotBlockAccept ==
    [][(uni.pc = "wait" /\ uni'.pc # "wait" /\ gate = None) => ~AuthenticateWaiting]_vars

\* the wait of the Packet timed out and the Packet was dropped, with the
\* valid Authenticate still unread
C26_Reached ==
    /\ arch = "TuicConnectionProcessor"
    /\ timed_out
    /\ uni.pc = "accept"
    /\ gate = None
    /\ AuthenticateWaiting
    /\ \A i \in Tasks : tasks[i] = IdleTask

\* C27: a malformed command ends only its stream: the role that read it
\* keeps accepting and the connection stays open.
C27_MalformedEndsStreamOnly ==
    /\ "uni" \in streams.broken => uni.pc # "exit"
    /\ "bi" \in streams.broken => bid.pc # "bail"

\* process_uni left its loop on a malformed command; the Authenticate opened
\* afterwards is never read
C27_Reached ==
    /\ "uni" \in streams.broken
    /\ uni.pc = "exit"
    /\ AuthenticateWaiting
    /\ ~closed

\* the bidirectional role reads a well-formed command that is not a Connect
ReadsNonConnect ==
    /\ bid.pc = "accept"
    /\ ~closed
    /\ streams.bi # << >>
    /\ Head(streams.bi).cmd.kind \notin {"Connect", "Malformed"}
    /\ streams'.bi = Tail(streams.bi)

\* C28: a well-formed command other than Connect on a bidirectional stream
\* closes the connection (the one close of the code carries 0xFFFF) and
\* starts no relay task and no TCP connection.
C28_NonConnectClosesConnection ==
    [][ReadsNonConnect => (closed' /\ tasks' = tasks /\ tcp_connects' = tcp_connects)]_vars

\* ConnectProcessor::process bailed on a Heartbeat and the connection is
\* still open
C28_Reached ==
    /\ arch = "CommandUniprocessor"
    /\ bid.pc = "bail"
    /\ streams.broken = {}
    /\ ~closed

(***************************************************************************)
(* Claims about the TCP relay (checked under SpecRelay).                   *)
(***************************************************************************)
\* C25: when one direction has reached end of stream the other is drained:
\* the relay closes both sides only after the other peer has closed too and
\* every byte either peer sent was handed to the other one.
C25_DrainBeforeClose ==
    relay.pc = "closed" =>
        \A p \in Peers : relay.eof[p] /\ relay.copied[p] = relay.sent[p]

\* the client closed after its bytes were copied, and the relay of the TUIC
\* Connect closed both sides with a byte of the target undelivered
C25_Reached ==
    /\ relay.pc = "closed"
    /\ relay.impl = "ConnectProcessor"
    /\ relay.dir["client"] = "eof"
    /\ relay.copied["client"] = relay.sent["client"]
    /\ relay.sent["target"] > relay.copied["target"]

(***************************************************************************)
(* Claims about the Trojan connection (checked under SpecTrojan).          *)
(***************************************************************************)
\* the whole request was sent and fails a framing or authentication step
FailsAStep(in) ==
    /\ in.cut = 0
    /\ \/ in.hash \notin valid_hashes
       \/ in.crlf # CRLF
       \/ in.cmd \notin {TROJAN_CONNECT, TROJAN_UDP_ASSOCIATE}
       \/ in.address[1] \notin {TROJAN_IPV4, TROJAN_DOMAIN_NAME, TROJAN_IPV6}
       \/ in.end_crlf # CRLF

\* C29: TrojanRequest::read_from returns "no request" and never an error
\* for a request with an unknown hash, a wrong CRLF after the hash or after
\* the address, a command byte other than 0x01 and 0x03 or an unknown
\* address type.
C29_MismatchIsNoRequest ==
(trojan.pc \notin {"accepted", "plain"} /\ FailsAStep(trojan.in)) =>
        trojan.request.result = "None"

\* a request with the valid hash and the command byte 0x02 was read, and
\* read_from returned an error
C29_Reached ==
    /\ trojan.pc = "rejected"
    /\ trojan.in.cut = 0
    /\ trojan.in.hash = ValidHash
    /\ trojan.in.crlf = CRLF
    /\ trojan.in.cmd = 2
    /\ trojan.request.result = "Err"

\* the request on the TLS stream was read, authenticated and well-formed
Authenticated ==
    trojan.transport = "TlsStream" /\ trojan.pc # "accepted" /\ trojan.request.result = "Some"

\* C30: on a connection whose request does not authenticate or is malformed
\* the server writes nothing of its own on the TLS stream and opens no TCP
\* or UDP flow for the request; Connect and UdpAssociate are handled only
\* after the hash matched a configured password.
C30_SilentUntilAuthenticated ==
    /\ ~Authenticated =>
          /\ \A k \in DOMAIN trojan.written : trojan.written[k].on # "TlsStream"
          /\ ~trojan.tcp_target
          /\ ~trojan.udp_open
    /\ trojan.pc \in {"request", "relay", "udp"} => trojan.in.hash \in valid_hashes

\* a request with an unknown hash was read from the TLS stream and the
\* connection was dropped
C30_Reached ==
    /\ trojan.transport = "TlsStream"
    /\ trojan.pc = "closed"
    /\ trojan.in.hash = UnknownHash
    /\ trojan.in.cut = 0
    /\ trojan.request.result = "None"

(***************************************************************************)
(* Claims about the addresses (checked under SpecAddr).                    *)
(***************************************************************************)

\* Ipv4Addr::is_loopback (127.0.0.0/8) and Ipv6Addr::is_loopback (::1)
is_loopback(ip) == IF is_ipv4(ip) THEN ip[1] = 127 ELSE ip = Ipv6Addr_LOCALHOST

\* the address is loopback or an interface address, also as the IPv4-mapped
\* IPv6 form of one
HostLocal(ip, if_addrs) ==
    \/ is_loopback(ip)
    \/ ip \in if_addrs
    \/ /\ ~is_ipv4(ip)
       /\ SubSeq(ip, 1, 12) = mapped(<< >>)
       /\ \/ is_loopback(SubSeq(ip, 13, 16))
          \/ SubSeq(ip, 13, 16) \in if_addrs

\* the target the server is to use for the address sa
Remapped(sa, if_addrs) ==
    IF HostLocal(sa.ip, if_addrs) THEN to_localhost(sa) ELSE sa

\* the socket addresses the call had before any replacement: the literal
\* address, or the answer of the resolver
Candidates ==
    IF addr_call.op = "tuic"
    THEN IF addr_call.address.kind = "SocketAddress"
         THEN <<SocketAddr(addr_call.address.ip, addr_call.address.port)>>
         ELSE IF addr_call.address.kind = "DomainAddress" /\ addr_call.lookup # << >>
         THEN <<Head(addr_call.lookup)>>
         ELSE << >>
    ELSE IF addr_call.address.addr_type = TROJAN_DOMAIN_NAME THEN addr_call.lookup
    ELSE IF parse_ip(addr_call.address.host,
                     IF addr_call.address.addr_type = TROJAN_IPV4 THEN 4 ELSE 16).ok
    THEN <<SocketAddr(addr_call.address.host, addr_call.address.port)>>
    ELSE << >>

\* the targets the call produced
Targets ==
    IF addr_call.op = "tuic"
    THEN IF is_some(addr_call.target) THEN <<addr_call.target[1]>> ELSE << >>
    ELSE IF addr_call.target.ok THEN addr_call.target.value ELSE << >>

\* C31: every upstream target (TUIC Connect and Packet, Trojan Connect and
\* UDP frame), literal or resolved, that is loopback or an address of a host
\* interface, also in IPv4-mapped IPv6 form, is replaced by the loopback
\* address of its family with the same port, and every other address is used
\* unchanged.
C31_HostLocalBecomesLoopback ==
    (addr_call.pc = "done" /\ addr_call.op \in {"tuic", "trojan"})
        => /\ Len(Targets) = Len(Candidates)
           /\ \A i \in DOMAIN Candidates :
                Targets[i] = Remapped(Candidates[i], addr_call.if_addrs)

\* a Trojan Connect to an address of a host interface went to that address
C31_InterfaceAddressKept ==
    /\ addr_call.pc = "done"
    /\ addr_call.op = "trojan"
    /\ addr_call.command = "Connect"
    /\ addr_call.address.host \in addr_call.if_addrs
    /\ addr_call.target.ok
    /\ addr_call.target.value = <<SocketAddr(addr_call.address.host, addr_call.address.port)>>

\* C32: decoding a TUIC Domain address accepts a name of length 255 and
\* rejects a name of length 0 as malformed, so that a command with an empty
\* domain name is never executed.
C32_EmptyDomainRejected ==
    (addr_call.pc = "done" /\ addr_call.op = "read_from")
        => /\ (addr_call.stream = DomainStream(255, 0)
                  => /\ addr_call.result.ok
                     /\ Len(addr_call.result.value.domain) = 255)
           /\ (addr_call.stream[2] = 0 => ~addr_call.result.ok)

\* the bytes of a Domain address with an empty name were decoded to an
\* address
C32_EmptyDomainDecoded ==
    /\ addr_call.pc = "done"
    /\ addr_call.op = "read_from"
    /\ addr_call.stream = DomainStream(0, 0)
    /\ addr_call.result.ok
    /\ addr_call.result.value = DomainAddress(<< >>, 443, DomainStream(0, 0))

(***************************************************************************)
(* Claims about concurrent fragments (checked under SpecSession).          *)
(***************************************************************************)

\* C35: when the fragments of two fragmented packets of one association with
\* different pkt_id and different destinations arrive interleaved, each
\* assembled payload is sent to the address of fragment 0 of its own packet.
C35_OwnDestination ==
    frag_race.pc = "run"
        => \A i \in DOMAIN frag_race.sent :
              frag_race.sent[i].dest = DestOf(frag_race.sent[i].pkt_id)

\* both packets were assembled and the payload of packet 7 was sent to the
\* destination of packet 8
C35_SentToOtherPacketsAddress ==
    /\ frag_race.pc = "run"
    /\ frag_race.name = "two_packets"
    /\ \A t \in DOMAIN frag_race.tasks : frag_race.tasks[t].pc = "done"
    /\ \E i \in DOMAIN frag_race.sent :
         /\ frag_race.sent[i].pkt_id = 7
         /\ frag_race.sent[i].payload = <<FragByte(7, 0), FragByte(7, 1)>>
         /\ frag_race.sent[i].dest = AddrOther

\* the tasks that obtained an assembled payload of packet 7
Takers ==
    {t \in DOMAIN frag_race.tasks :
        /\ is_some(frag_race.tasks[t].payload)
        /\ frag_race.tasks[t].frag.pkt_id = 7}

\* C36: in every interleaving of the tasks that deliver one fragment each of
\* the same packet to accept and then call take_fragmented_packet, exactly
\* one task obtains the assembled payload, also when a duplicate of a
\* fragment arrives between the completion and the take.
C36_ExactlyOneTaker ==
    frag_race.pc = "run"
        => /\ Cardinality(Takers) <= 1
           /\ Cardinality({i \in DOMAIN frag_race.sent : frag_race.sent[i].pkt_id = 7}) <= 1
           /\ (\A t \in DOMAIN frag_race.tasks : frag_race.tasks[t].pc = "done")
                 => Cardinality(Takers) = 1

\* accept reported the packet complete to two tasks, the second for a
\* duplicate that arrived before the first had taken the packet, and both
\* have called take_fragmented_packet
C36_Reached ==
    /\ frag_race.pc = "run"
    /\ frag_race.name = "duplicate"
    /\ \A t \in DOMAIN frag_race.tasks : frag_race.tasks[t].pc = "done"
    /\ Cardinality({t \in DOMAIN frag_race.tasks : is_some(frag_race.tasks[t].completed)}) = 2
    /\ Cardinality(Takers) = 1

(***************************************************************************)
(* Claims about the cleanup pass (checked under SpecSweep).                *)
(***************************************************************************)

\* C39: cleanup_expired_sessions running beside receive_fragment never
\* removes a buffer whose last update is within session_timeout at the
\* moment of the removal: a buffer refreshed, or completed and created
\* again, after the pass collected its keys is kept.
C39_OnlyExpiredRemoved ==
    [][\A key \in {Client} \X CapAssocs :
          (SweepRemove(key) /\ key \in DOMAIN sessions)
              => is_expired(sessions[key], SESSION_TIMEOUT, now)]_vars

\* the pass removed a buffer that had been updated in the second of the
\* removal
C39_FreshBufferRemoved ==
    /\ is_some(sweep.removal.key)
    /\ sweep.removal.at = sweep.removal.last_update
    /\ sweep.removal.key[1] \notin DOMAIN sessions

(***************************************************************************)
(* Claims about concurrent authentication (checked under SpecAuthRace).    *)
(***************************************************************************)

RaceAllDone == \A c \in RaceConns : auth_race.conns[c].pc = "done"

\* C37: for every interleaving of concurrent wrong-token Authenticate
\* attempts for one user from different connections no failure is lost from
\* the process-wide record, so that at most 5 mismatching attempts of the
\* user reach the token comparison within one window of an hour.
C37_NoFailureLost ==
    auth_race.pc = "run"
        => /\ auth_race.compared <= MAX_FAILED_ATTEMPTS
           /\ RaceAllDone
                 => /\ RaceUser \in DOMAIN auth_race.failed_attempts
                    /\ auth_race.failed_attempts[RaceUser].count = auth_race.compared

\* three connections arrived with no failure on record, all three tokens
\* were compared and refused, and the record counts one failure
C37_FailuresLost ==
    /\ auth_race.pc = "run"
    /\ auth_race.prior = 0
    /\ RaceAllDone
    /\ \A c \in RaceConns : auth_race.conns[c].result = "Unauthenticated access"
    /\ auth_race.compared = MaxRaceConns
    /\ auth_race.failed_attempts[RaceUser].count = 1

(***************************************************************************)
(* Claims about shutdown (checked under SpecAcceptLive).                   *)
(***************************************************************************)

\* C34: after the shutdown signal of the process is sent the accept loop of
\* each listener stops in the end and accepts no further connection, also
\* when new connections keep arriving.
C34_AcceptLoopStops ==
    (listener.pc = "loop" /\ listener.shutdown) ~> (listener.pc = "stopped")

\* the Trojan loop is still running after the signal and has accepted
\* connections that arrived after it
C34_AcceptsAfterSignal ==
    /\ listener.pc = "loop"
    /\ listener.server = "Trojan"
    /\ listener.shutdown
    /\ listener.accepted_after = MaxAccepted

(***************************************************************************)
(* Claims about the Trojan UDP association (checked under                  *)
(* SpecUdpAssocLive).                                                      *)
(***************************************************************************)

\* the client's stream is closed or holds a frame that does not parse, or a
\* reply could not be written
AssociationBroken ==
    /\ udp_assoc.pc # "none"
    /\ \/ udp_assoc.client = "closed"
       \/ udp_assoc.write_failed
       \/ /\ udp_assoc.send_task.pc = "read"
          /\ udp_assoc.in # << >>
          /\ ~ParsedFrames[Head(udp_assoc.in)].ok

\* the token is cancelled, the handler has returned and no task runs (the
\* sockets are owned by the handler and the tasks)
AssociationEnded ==
    /\ udp_assoc.cancel
    /\ udp_assoc.pc = "returned"
    /\ udp_assoc.send_task.pc = "stopped"
    /\ \A s \in DOMAIN udp_assoc.recv : udp_assoc.recv[s] = "stopped"

\* C40: once the client's TLS stream is closed or yields a malformed UDP
\* frame, or a reply cannot be written, the association ends: the token is
\* cancelled, the reply loop exits and the send task and every receive task
\* stop; a frame whose destination does not resolve is skipped and the
\* association goes on.
C40_AssociationEnds ==
    /\ AssociationBroken ~> AssociationEnded
    /\ [][\A lookup \in {<< >>, <<SocketAddr(Remote4, 53)>>} :
             (/\ SendResolve(lookup)
              /\ ~Trojan_to_socket_addrs(udp_assoc.send_task.frame.dst, lookup).ok)
                 => /\ udp_assoc'.cancel = udp_assoc.cancel
                    /\ udp_assoc'.pc = udp_assoc.pc
                    /\ udp_assoc'.send_task.pc = "read"
                    /\ udp_assoc'.recv = udp_assoc.recv]_vars

\* the association ended on a frame with a wrong CRLF after a frame whose
\* name did not resolve had been skipped
C40_Reached ==
    /\ AssociationEnded
    /\ udp_assoc.client = "open"
    /\ ~udp_assoc.write_failed
    /\ udp_assoc.skipped = 1
    /\ udp_assoc.frames = 2
    /\ DOMAIN udp_assoc.recv = {"v4", "v6"}

(***************************************************************************)
(* Claims about the connection (checked under Spec).                       *)
(***************************************************************************)
\* C1: while the gate of the connection is not Some(true) (unset, false, or
\* a gate wait timed out), no step makes a TCP connection attempt or a UDP
\* send, and none creates, changes or removes a UDP session or a reassembly
\* buffer.
C1_NoEffectBeforeAuth ==
    [][gate # Some(TRUE) =>
         /\ tcp_connects' = tcp_connects
         /\ udp_sends' = udp_sends
         /\ udp_sessions' = udp_sessions
         /\ sessions' = sessions]_vars

\* a UDP session exists and a datagram went upstream although the gate was
\* never signalled
C1_Reached ==
    /\ gate_log = << >>
    /\ udp_sends > 0
    /\ udp_sessions # << >>

\* C2: once the gate is Some(false) it stays Some(false), and from then on
\* no step makes a TCP connection attempt or a UDP send.
C2_FailedStaysFailed ==
    [][gate = Some(FALSE) =>
         /\ gate' = gate
         /\ tcp_connects' = tcp_connects
         /\ udp_sends' = udp_sends]_vars

\* at time 0 (no wait can have timed out) the only signal on the gate is the
\* false of a wrong token, a Packet has been sent upstream behind it, and no
\* failed attempt is on record
C2_Reached ==
    /\ now = 0
    /\ gate = Some(FALSE)
    /\ Len(gate_log) = 1
    /\ udp_sends = 1
    /\ failed_attempts = << >>

\* C5: when the gate is Some(true), and was never signalled anything else,
\* neither the bidirectional nor the datagram role has ended at its gate wait.
C5_RolesActive ==
    (gate = Some(TRUE) /\ \A k \in DOMAIN gate_log : gate_log[k].v) =>
        (bid.pc # "gate_exit" /\ dat.pc # "gate_exit")

\* the Authenticate succeeded after both role waits had timed out
C5_Reached ==
    /\ arch = "TuicConnectionProcessor"
    /\ gate = Some(TRUE)
    /\ Len(gate_log) = 1
    /\ bid.pc = "gate_exit"
    /\ dat.pc = "gate_exit"

\* C6: after the gate wait of a non-Authenticate command has timed out, the
\* gate never is Some(true), and no command whose wait timed out is executed.
C6_TimeoutIsFinal == timed_out => (gate # Some(TRUE) /\ ~ran_timed_out)

\* a command's wait timed out and the connection authenticated afterwards
C6_Reached ==
    /\ arch = "TuicConnectionProcessor"
    /\ timed_out
    /\ gate = Some(TRUE)
    /\ uni.pc = "accept"

(***************************************************************************)
(* Claims about the gate (checked under SpecGate).                         *)
(***************************************************************************)
\* C3: notify sets the gate at most once: once a value is stored it stays,
\* whatever later or concurrent notify calls do.
C3_GateSetOnce == [][is_some(gate) => gate' = gate]_vars

\* a state in which two notify calls have both sent
C3_TwoSends == Len(gate_log) >= 2

\* C4: a waiter that returns the timeout outcome saw no notify before its
\* deadline, a waiter that returns a boolean returns a value that was stored,
\* and all waiters that return a boolean return the same one.
C4_WaitOutcome ==
    \A q \in WaitTasks :
        wtask[q].pc = "done" =>
            /\ wtask[q].result = None =>
                   \A i \in 1..Len(gate_log) :
                       gate_log[i].t >= wtask[q].start + WAIT_SECS
            /\ is_some(wtask[q].result) =>
                   /\ \E i \in 1..Len(gate_log) : Some(gate_log[i].v) = wtask[q].result
                   /\ \A r \in WaitTasks :
                          (wtask[r].pc = "done" /\ is_some(wtask[r].result))
                          => wtask[r].result = wtask[q].result

\* two waiters on one gate have returned different booleans
C4_Disagree ==
    /\ wtask["w1"].pc = "done" /\ wtask["w2"].pc = "done"
    /\ is_some(wtask["w1"].result) /\ is_some(wtask["w2"].result)
    /\ wtask["w1"].result # wtask["w2"].result

(***************************************************************************)
(* Claims about authenticate (checked under SpecAuth).                     *)
(***************************************************************************)
\* the step is call number last.n + 1 of authenticate, made for user u
AuthCallOn(u) == last'.n = last.n + 1 /\ last'.uuid = u

\* u has MAX_FAILED_ATTEMPTS or more recorded failures within the window
LimitedNow(u) ==
    /\ u \in DOMAIN failed_attempts
    /\ failed_attempts[u].count >= MAX_FAILED_ATTEMPTS
    /\ now - failed_attempts[u].first_failure <= WINDOW_SECS

\* the token the exporter derives for u on this session
DerivedToken(u) == export_keying_material(u, users[u])

\* C7: while a user has 5 or more recorded failures within the 1 hour window,
\* an authenticate call for that user does not call the keying material
\* exporter: the exporter call count does not grow during the attempt.
C7_RateLimitedSkipsExporter ==
    [][\A u \in Users :
          (LimitedNow(u) /\ AuthCallOn(u)) => exporter_calls' = exporter_calls]_vars

\* C8: while a user has 5 recorded failures within the window, every further
\* Authenticate for that user (right token or wrong) is rejected as rate
\* limited and leaves the failed-attempts record unchanged.
C8_RateLimitedRejectsAll ==
    [][\A u \in Users :
          (LimitedNow(u) /\ AuthCallOn(u)) =>
              /\ last'.result = "Too many failed attempts"
              /\ failed_attempts' = failed_attempts]_vars

\* C9 (state part): with no mismatch since the last match a user has no
\* record; after k < 5 mismatches that all fall within the window the count is
\* k; an attempt is rate limited only after five mismatches since the last match.
C9_CountIsStreak ==
    \A u \in Users :
        /\ streak[u].n = 0 => u \notin DOMAIN failed_attempts
        /\ (/\ streak[u].n > 0
            /\ streak[u].n < MAX_FAILED_ATTEMPTS
            /\ now - streak[u].start <= WINDOW_SECS)
           => /\ u \in DOMAIN failed_attempts
              /\ failed_attempts[u].count = streak[u].n
              /\ failed_attempts[u].first_failure = streak[u].start
        /\ (last.uuid = u /\ last.result = "Too many failed attempts")
           => streak[u].n >= MAX_FAILED_ATTEMPTS

\* C9 (step part): a mismatch creates the record with count 1 when it is
\* absent and adds exactly one to a record that is within its window; a match
\* removes the record.
C9_MismatchAddsOne ==
    \A u \in Users :
        (AuthCallOn(u) /\ last'.export_ok /\ ~LimitedNow(u)) =>
            IF last'.token = DerivedToken(u)
            THEN last'.result = "Ok" /\ u \notin DOMAIN failed_attempts'
            ELSE /\ last'.result = "Unauthenticated access"
                 /\ u \in DOMAIN failed_attempts'
                 /\ u \notin DOMAIN failed_attempts =>
                        failed_attempts'[u] = [count |-> 1, first_failure |-> now]
                 /\ (/\ u \in DOMAIN failed_attempts
                     /\ now - failed_attempts[u].first_failure <= WINDOW_SECS)
                    => failed_attempts'[u] =
                           [failed_attempts[u] EXCEPT !.count = @ + 1]

\* C9: for sequential attempts of one user a mismatch adds exactly one to the
\* record (creating it with count 1), a match removes it, the count after
\* k < 5 mismatches is k, and five new mismatches are needed after a match
\* before an attempt is rate limited.
C9_SequentialCounting == []C9_CountIsStreak /\ [][C9_MismatchAddsOne]_vars

\* C9 witness: four mismatches in a row within the window, count 4, and the
\* last call was the fourth mismatch.
C9_Witness ==
    /\ streak["u1"].n = 4
    /\ last.result = "Unauthenticated access"
    /\ last.before.count = 3
    /\ "u1" \in DOMAIN failed_attempts
    /\ failed_attempts["u1"].count = 4

\* C10: an attempt that arrives more than 1 hour after the record's
\* first_failure: a mismatch resets the record and counts as attempt 1
\* (count = 1, first_failure = now) whatever the old count was, and the right
\* token is accepted even if the old count had reached 5.
C10_AfterWindow ==
    [][\A u \in Users :
          (/\ AuthCallOn(u)
           /\ last'.export_ok
           /\ u \in DOMAIN failed_attempts
           /\ now - failed_attempts[u].first_failure > WINDOW_SECS)
          => IF last'.token = DerivedToken(u)
             THEN last'.result = "Ok" /\ u \notin DOMAIN failed_attempts'
             ELSE /\ last'.result = "Unauthenticated access"
                  /\ u \in DOMAIN failed_attempts'
                  /\ failed_attempts'[u] = [count |-> 1, first_failure |-> now]]_vars

\* C10 witness: a mismatch found a record that had reached 5, after its
\* window, and left count 1 with first_failure = now.
C10_Witness ==
    /\ last.uuid = "u1"
    /\ last.result = "Unauthenticated access"
    /\ last.before.count = MAX_FAILED_ATTEMPTS
    /\ failed_attempts["u1"] = [count |-> 1, first_failure |-> now]

\* a state in which a call for a rate limited user has just returned
\* "Too many failed attempts" although the exporter was called
C7_Reached ==
    /\ last.result = "Too many failed attempts"
    /\ last.before.count >= MAX_FAILED_ATTEMPTS
    /\ last.exported

====
